---- MODULE Spec2Model ----
(***************************************************************************)
(* Expense tracker (Streamlit).  The Google-OAuth variant keeps one SQLite *)
(* file per signed-in email (ai_app.py).  Every script run renders, top to *)
(* bottom, the sidebar summary, the Dashboard tab, the Add Expense form,   *)
(* the Reports tab and the All Entries tab; each tab fetches the ledger    *)
(* and computes its aggregates inline.                                     *)
(*                                                                         *)
(* Amounts are whole currency units (the form's step is 1.0), so sums are  *)
(* exact; quotients are kept as fractions [num, den], and a fraction with  *)
(* den = 0 stands for pandas' NaN.  A date stored as TEXT "YYYY-MM-DD" is  *)
(* the tuple <<y, m, d>>: the zero-padded text compares as the tuple does. *)
(* A string the code manipulates character by character (an email, a file  *)
(* name) is a sequence of one-character strings; the texts typed into the  *)
(* forms of app.py, which a Unicode pattern is matched against, are        *)
(* sequences of code points.                                               *)
(***************************************************************************)
EXTENDS Integers, Sequences, FiniteSets, TLC

VARIABLES
    fs,                 \* expense_user_data/: db path -> rows of its expenses table
    session_state,      \* st.session_state: the keys set, with their values
    run,                \* what the last script run rendered
    added               \* history: the add_expense calls made under each email

vars == <<fs, session_state, run, added>>

-----------------------------------------------------------------------------
(* Bounds of the model *)

MaxRows == 2        \* rows per database file under Spec, rows stored before a call under SpecStore
MaxLen == 3         \* rows of the ledger under SpecLedger
MaxTopLen == 6      \* rows of the ledger under SpecTop

(* Constants of the program *)

TopN == 5           \* .head(5)
TrendWindow == 12   \* .iloc[-12]
WarnPct == 40       \* ratio > 0.4
TipPct == 30        \* ratio > 0.3
ReducePct == 25     \* ratio * avg_monthly * 0.25

Categories == {"Food", "Transport", "Utilities", "Entertainment", "Miscellaneous"}
\* groupby sorts its keys: the categories in string order
CategoryOrder == <<"Entertainment", "Food", "Miscellaneous", "Transport", "Utilities">>
WeekdayOrder == <<"Monday", "Tuesday", "Wednesday", "Thursday", "Friday", "Saturday", "Sunday">>
MonthNames == <<"January", "February", "March", "April", "May", "June", "July",
                "August", "September", "October", "November", "December">>

-----------------------------------------------------------------------------
(* Numbers *)

RECURSIVE GCD(_, _)
GCD(a, b) == IF b = 0 THEN a ELSE GCD(b, a % b)

\* the quotient n / d (n >= 0, d >= 0) in lowest terms; n / 0 is NaN
NaN == [num |-> 0, den |-> 0]
Frac(n, d) == IF d = 0 THEN NaN ELSE [num |-> n \div GCD(n, d), den |-> d \div GCD(n, d)]
IsNaN(f) == f.den = 0
\* f = g as numbers (neither is NaN)
FracEq(f, g) == f.den # 0 /\ g.den # 0 /\ f.num * g.den = g.num * f.den
\* f > pct / 100, as the float comparison decides it (False on NaN)
FracGtPct(f, pct) == f.den > 0 /\ f.num * 100 > pct * f.den
FracGtZero(f) == f.den > 0 /\ f.num > 0
FracMul(f, g) == Frac(f.num * g.num, f.den * g.den)

Min2(a, b) == IF a < b THEN a ELSE b

RECURSIVE SumSeq(_)
SumSeq(s) == IF s = <<>> THEN 0 ELSE Head(s) + SumSeq(Tail(s))

MaxSeq(s) == CHOOSE x \in {s[i] : i \in 1..Len(s)} : \A j \in 1..Len(s) : s[j] <= x
MinSeq(s) == CHOOSE x \in {s[i] : i \in 1..Len(s)} : \A j \in 1..Len(s) : s[j] >= x

\* Series.sum(): 0 on an empty column
ColSum(df, col) == SumSeq([i \in 1..Len(df) |-> df[i][col]])
\* Series.mean(): NaN on an empty column
ColMean(df, col) == Frac(ColSum(df, col), Len(df))

-----------------------------------------------------------------------------
(* Per-user SQLite files *)

RECURSIVE Replace(_, _, _)
\* str.replace(old, new) for a one-character old
Replace(s, old, new) ==
    IF s = <<>> THEN <<>>
    ELSE (IF Head(s) = old THEN new ELSE <<Head(s)>>) \o Replace(Tail(s), old, new)

\* safe_fn = email.replace("@", "_at_").replace(".", "_"); db_path = folder/safe_fn.db
db_path(email) ==
    Replace(Replace(email, "@", <<"_", "a", "t", "_">>), ".", <<"_">>)
        \o <<".", "d", "b">>

\* sqlite3.connect creates the file, init_schema_if_missing the empty table
get_connection_for_email(files, email) ==
    IF db_path(email) \in DOMAIN files THEN files
    ELSE [p \in DOMAIN files \cup {db_path(email)} |->
            IF p \in DOMAIN files THEN files[p] ELSE <<>>]

\* INSERT INTO expenses ...: the id is AUTOINCREMENT, no row is ever deleted
add_expense(files, email, amount, category, date, is_necessary, description) ==
    LET conn == get_connection_for_email(files, email)
        p == db_path(email)
        row == [id |-> Len(conn[p]) + 1, amount |-> amount, category |-> category,
                date |-> date, is_necessary |-> is_necessary,
                description |-> description]
    IN [conn EXCEPT ![p] = Append(@, row)]

\* comparison of two "YYYY-MM-DD" texts
DateTextLess(a, b) ==
    \/ a[1] < b[1]
    \/ a[1] = b[1] /\ a[2] < b[2]
    \/ a[1] = b[1] /\ a[2] = b[2] /\ a[3] < b[3]

RECURSIVE OrderByDateDesc(_)
\* ORDER BY date DESC over a table scan: rows of one date stay in rowid order
OrderByDateDesc(rows) ==
    IF rows = <<>> THEN <<>>
    ELSE LET h == Head(rows)
             rest == OrderByDateDesc(Tail(rows))
             k == Cardinality({i \in 1..Len(rest) : DateTextLess(h.date, rest[i].date)})
         IN SubSeq(rest, 1, k) \o <<h>> \o SubSeq(rest, k + 1, Len(rest))

\* SELECT * FROM expenses ORDER BY date DESC, on this user's file
get_expenses_df(files, email) ==
    OrderByDateDesc(get_connection_for_email(files, email)[db_path(email)])

-----------------------------------------------------------------------------
(* Columns derived from the date *)

\* pd.to_datetime on a "YYYY-MM-DD" text: a Timestamp
to_datetime(text) == [year |-> text[1], month |-> text[2], day |-> text[3]]

\* df["date"] = pd.to_datetime(df["date"])
WithDatetime(df) == [i \in 1..Len(df) |-> [df[i] EXCEPT !.date = to_datetime(@)]]

\* .dt.to_period("M")
to_period_M(ts) == <<ts.year, ts.month>>
PeriodLess(p, q) == p[1] < q[1] \/ (p[1] = q[1] /\ p[2] < q[2])

\* .dt.day_name(): the day of the week of a Gregorian date
day_name(ts) ==
    LET t == <<0, 3, 2, 5, 0, 3, 5, 1, 4, 6, 2, 4>>
        y == IF ts.month < 3 THEN ts.year - 1 ELSE ts.year
        dow == (y + (y \div 4) - (y \div 100) + (y \div 400) + t[ts.month] + ts.day) % 7
    IN <<"Sunday", "Monday", "Tuesday", "Wednesday", "Thursday", "Friday", "Saturday">>[dow + 1]

\* .dt.strftime("%B %Y") and .dt.strftime("%b %Y"): a month label
strftime(fmt, y, m) == [fmt |-> fmt, month |-> MonthNames[m], year |-> y]

\* format_currency(x, "INR", locale="en_IN"): the number as a rupee text
format_currency(x) == [currency |-> "INR", value |-> x]

RECURSIVE AscPeriods(_)
\* the group keys of a groupby on the month period: distinct, ascending
AscPeriods(S) ==
    IF S = {} THEN <<>>
    ELSE LET m == CHOOSE p \in S : \A q \in S \ {p} : PeriodLess(p, q)
         IN <<m>> \o AscPeriods(S \ {m})

MonthKeys(df) == AscPeriods({to_period_M(df[i].date) : i \in 1..Len(df)})
InMonth(df, p) == SelectSeq(df, LAMBDA r : to_period_M(r.date) = p)
InCategory(df, c) == SelectSeq(df, LAMBDA r : r.category = c)
\* the group keys of a groupby on the category: the categories present, sorted
CategoryKeys(df) == SelectSeq(CategoryOrder, LAMBDA c : \E i \in 1..Len(df) : df[i].category = c)

-----------------------------------------------------------------------------
(* Dashboard tab *)

\* df.groupby(date.dt.to_period("M"))["amount"].sum().mean()
avg_monthly(df) ==
    LET keys == MonthKeys(df)
        sums == [k \in 1..Len(keys) |-> ColSum(InMonth(df, keys[k]), "amount")]
    IN Frac(SumSeq(sums), Len(keys))

\* necessity_split with the necessity flag read the wrong way round
necessity_split_inverted(df) ==
    LET total == ColSum(df, "amount")
        necessary == ColSum(SelectSeq(df, LAMBDA r : r.is_necessary = 0), "amount")
        non_need == total - necessary
    IN [total |-> total, necessary |-> necessary, non_need |-> non_need,
        ratio |-> IF total > 0 THEN Frac(non_need, total) ELSE Frac(0, 1)]

\* necessity_split without the total > 0 guard on the division
necessity_split_unguarded(df) ==
    LET total == ColSum(df, "amount")
        necessary == ColSum(SelectSeq(df, LAMBDA r : r.is_necessary = 1), "amount")
        non_need == total - necessary
    IN [total |-> total, necessary |-> necessary, non_need |-> non_need,
        ratio |-> Frac(non_need, total)]

\* total, necessary, non_need, ratio
necessity_split(df) ==
    LET total == ColSum(df, "amount")
        necessary == ColSum(SelectSeq(df, LAMBDA r : r.is_necessary = 1), "amount")
        non_need == total - necessary
    IN [total |-> total, necessary |-> necessary, non_need |-> non_need,
        ratio |-> IF total > 0 THEN Frac(non_need, total) ELSE Frac(0, 1)]

\* smart_suggestions with the tip on the warning's threshold
smart_suggestions_one_threshold(df) ==
    LET split == necessity_split(df)
        avg == avg_monthly(df)
        tip == FracGtZero(avg) /\ FracGtPct(split.ratio, WarnPct)
    IN [warning |-> FracGtPct(split.ratio, WarnPct),
        avg_monthly |-> avg,
        tip |-> tip,
        est_saves |-> IF tip THEN FracMul(FracMul(split.ratio, avg), Frac(ReducePct, 100))
                      ELSE NaN]

\* smart_suggestions with the two thresholds exchanged
smart_suggestions_swapped(df) ==
    LET split == necessity_split(df)
        avg == avg_monthly(df)
        tip == FracGtZero(avg) /\ FracGtPct(split.ratio, WarnPct)
    IN [warning |-> FracGtPct(split.ratio, TipPct),
        avg_monthly |-> avg,
        tip |-> tip,
        est_saves |-> IF tip THEN FracMul(FracMul(split.ratio, avg), Frac(ReducePct, 100))
                      ELSE NaN]

\* 1) Smart Suggestions: the warning and the savings tip
smart_suggestions(df) ==
    LET split == necessity_split(df)
        avg == avg_monthly(df)
        tip == FracGtZero(avg) /\ FracGtPct(split.ratio, TipPct)
    IN [warning |-> FracGtPct(split.ratio, WarnPct),
        avg_monthly |-> avg,
        tip |-> tip,
        est_saves |-> IF tip THEN FracMul(FracMul(split.ratio, avg), Frac(ReducePct, 100))
                      ELSE NaN]

\* cat_data taking each group's first amount (.first()) instead of its sum
cat_data_first(df) ==
    LET keys == CategoryKeys(df)
    IN [k \in 1..Len(keys) |->
            [category |-> keys[k], amount |-> InCategory(df, keys[k])[1].amount,
             formatted |-> format_currency(InCategory(df, keys[k])[1].amount)]]

\* 3) df.groupby("category")["amount"].sum().reset_index()
cat_data(df) ==
    LET keys == CategoryKeys(df)
    IN [k \in 1..Len(keys) |->
            [category |-> keys[k], amount |-> ColSum(InCategory(df, keys[k]), "amount"),
             formatted |-> format_currency(ColSum(InCategory(df, keys[k]), "amount"))]]

RECURSIVE AscInts(_)
\* the integers of S in ascending order
AscInts(S) ==
    IF S = {} THEN <<>>
    ELSE LET m == CHOOSE x \in S : \A y \in S : x <= y IN <<m>> \o AscInts(S \ {m})

\* {1: "Necessary", 0: "Non<U+2010>Necessary"} of ai_app.py, the texts as code
\* points: the second is spelt with a HYPHEN (8208)
NecessityLabels ==
    [v \in {0, 1} |->
        IF v = 1 THEN <<78, 101, 99, 101, 115, 115, 97, 114, 121>>
        ELSE <<78, 111, 110, 8208, 78, 101, 99, 101, 115, 115, 97, 114, 121>>]

\* df.groupby("is_necessary")["amount"].sum().reset_index(): one row for
\* each flag value present, in ascending order of the value; then
\* ["is_necessary"].map(labels): label is <<the text>> for a value the dict
\* labels has, and <<>> (NaN) for any other
groupby_is_necessary(df, labels) ==
    LET keys == AscInts({df[i].is_necessary : i \in 1..Len(df)})
    IN [k \in 1..Len(keys) |->
            [is_necessary |-> keys[k],
             amount |-> ColSum(SelectSeq(df, LAMBDA r : r.is_necessary = keys[k]), "amount"),
             label |-> IF keys[k] \in DOMAIN labels THEN <<labels[keys[k]]>> ELSE <<>>]]

\* 4) necessity_data of the Dashboard of ai_app.py
necessity_data(df) == groupby_is_necessary(df, NecessityLabels)

RECURSIVE SortedHeads(_, _, _)
\* The first n rows of df[S] in descending amount order.  sort_values sorts
\* with its default kind, quicksort, which is not stable: rows of equal
\* amount come out in any order.
SortedHeads(df, S, n) ==
    IF n = 0 \/ S = {} THEN {<<>>}
    ELSE LET M == {i \in S : \A j \in S : df[j].amount <= df[i].amount}
         IN UNION {{<<df[i]>> \o t : t \in SortedHeads(df, S \ {i}, n - 1)} : i \in M}

RECURSIVE SortedHeadsAscending(_, _, _)
SortedHeadsAscending(df, S, n) ==
    IF n = 0 \/ S = {} THEN {<<>>}
    ELSE LET M == {i \in S : \A j \in S : df[j].amount >= df[i].amount}
         IN UNION {{<<df[i]>> \o t : t \in SortedHeadsAscending(df, S \ {i}, n - 1)} : i \in M}

\* top5 without ascending=False
top5_ascending(df) == SortedHeadsAscending(df, 1..Len(df), TopN)

\* top5 cut one row short
top5_short(df) == SortedHeads(df, 1..Len(df), TopN - 1)

\* 5) df.sort_values("amount", ascending=False).head(5): its possible results
top5(df) == SortedHeads(df, 1..Len(df), TopN)

\* the Dashboard tab on the fetched ledger, with top as the sort's result
Dashboard(fetched, top) ==
    IF fetched = <<>>
    THEN [empty |-> TRUE, split |-> [total |-> 0, necessary |-> 0, non_need |-> 0, ratio |-> NaN],
          suggestions |-> [warning |-> FALSE, avg_monthly |-> NaN, tip |-> FALSE, est_saves |-> NaN],
          avg_spent |-> NaN, max_spent |-> 0, min_spent |-> 0,
          cat_data |-> <<>>, necessity_data |-> <<>>, top5 |-> <<>>]
    ELSE LET df == WithDatetime(fetched)
             amounts == [i \in 1..Len(df) |-> df[i].amount]
         IN [empty |-> FALSE,
             split |-> necessity_split(df),
             suggestions |-> smart_suggestions(df),
             avg_spent |-> ColMean(df, "amount"),
             max_spent |-> MaxSeq(amounts),
             min_spent |-> MinSeq(amounts),
             cat_data |-> cat_data(df),
             necessity_data |-> necessity_data(df),
             top5 |-> top]

-----------------------------------------------------------------------------
(* Reports tab *)

\* df["date"] = to_datetime; df["Month"] = strftime("%B %Y"); df["Weekday"] = day_name()
WithReportColumns(df) ==
    [i \in 1..Len(df) |->
        LET ts == to_datetime(df[i].date)
        IN [id |-> df[i].id, amount |-> df[i].amount, category |-> df[i].category,
            date |-> ts, is_necessary |-> df[i].is_necessary,
            description |-> df[i].description,
            Month |-> strftime("%B %Y", ts.year, ts.month), Weekday |-> day_name(ts)]]

\* a) groupby("category")["amount"].agg(["count", "sum", "mean"])
habit_summary(df) ==
    LET keys == CategoryKeys(df)
    IN [k \in 1..Len(keys) |->
            LET g == InCategory(df, keys[k])
            IN [Category |-> keys[k], Entries |-> Len(g),
                TotalSpent |-> format_currency(Frac(ColSum(g, "amount"), 1)),
                AverageSpent |-> format_currency(ColMean(g, "amount"))]]

\* monthly_summary grouped by the month number (date.dt.month), the year dropped
monthly_summary_by_month_number(df) ==
    LET keys == AscPeriods({<<0, df[i].date.month>> : i \in 1..Len(df)})
    IN [k \in 1..Len(keys) |->
            LET g == SelectSeq(df, LAMBDA r : r.date.month = keys[k][2])
                amounts == [i \in 1..Len(g) |-> g[i].amount]
            IN [MonthPeriod |-> <<g[1].date.year, keys[k][2]>>,
                Month |-> strftime("%B %Y", g[1].date.year, keys[k][2]),
                TotalEntries |-> Len(g),
                TotalSpent |-> format_currency(Frac(ColSum(g, "amount"), 1)),
                Average |-> format_currency(ColMean(g, "amount")),
                Max |-> format_currency(Frac(MaxSeq(amounts), 1)),
                Min |-> format_currency(Frac(MinSeq(amounts), 1))]]

\* b) groupby(date.dt.to_period("M"))["amount"].agg(["count", "sum", "mean", "max", "min"])
monthly_summary(df) ==
    LET keys == MonthKeys(df)
    IN [k \in 1..Len(keys) |->
            LET g == InMonth(df, keys[k])
                amounts == [i \in 1..Len(g) |-> g[i].amount]
            IN [MonthPeriod |-> keys[k],
                Month |-> strftime("%B %Y", keys[k][1], keys[k][2]),
                TotalEntries |-> Len(g),
                TotalSpent |-> format_currency(Frac(ColSum(g, "amount"), 1)),
                Average |-> format_currency(ColMean(g, "amount")),
                Max |-> format_currency(Frac(MaxSeq(amounts), 1)),
                Min |-> format_currency(Frac(MinSeq(amounts), 1))]]

\* weekday_data without the reindex: only the weekdays that hold records
weekday_data_groups_only(df) ==
    LET present == SelectSeq(WeekdayOrder, LAMBDA w : \E i \in 1..Len(df) : df[i].Weekday = w)
    IN [k \in 1..Len(present) |->
            LET g == SelectSeq(df, LAMBDA r : r.Weekday = present[k])
            IN [Weekday |-> present[k],
                total_amount |-> Frac(ColSum(g, "amount"), 1),
                avg_amount |-> ColMean(g, "amount"),
                total_necess |-> Frac(ColSum(g, "is_necessary"), 1),
                count |-> Frac(Len(g), 1),
                necessity_ratio |-> Frac(ColSum(g, "is_necessary") * 100, Len(g))]]

\* d) groupby("Weekday").agg(sum, mean, sum of is_necessary, count).reindex(Monday..Sunday),
\* then necessity_ratio = total_necess / count * 100.  reindex gives a weekday that
\* is no group key a row of NaN.
weekday_data(df) ==
    [k \in 1..Len(WeekdayOrder) |->
        LET g == SelectSeq(df, LAMBDA r : r.Weekday = WeekdayOrder[k])
            n == Len(g)
            total_necess == ColSum(g, "is_necessary")
        IN IF n = 0
           THEN [Weekday |-> WeekdayOrder[k], total_amount |-> NaN, avg_amount |-> NaN,
                 total_necess |-> NaN, count |-> NaN, necessity_ratio |-> NaN]
           ELSE [Weekday |-> WeekdayOrder[k],
                 total_amount |-> Frac(ColSum(g, "amount"), 1),
                 avg_amount |-> ColMean(g, "amount"),
                 total_necess |-> Frac(total_necess, 1),
                 count |-> Frac(n, 1),
                 necessity_ratio |-> Frac(total_necess * 100, n)]]

\* e) groupby(date.dt.to_period("M"))["amount"].mean().reset_index(), with month_str
monthly_avg(df) ==
    LET keys == MonthKeys(df)
    IN [k \in 1..Len(keys) |->
            [date |-> keys[k], amount |-> ColMean(InMonth(df, keys[k]), "amount"),
             month_str |-> strftime("%b %Y", keys[k][1], keys[k][2])]]

\* Series.iloc[k] raises IndexError unless -len <= k < len
IndexInBounds(s, k) == -Len(s) <= k /\ k < Len(s)
iloc(s, k) == s[IF k < 0 THEN Len(s) + k + 1 ELSE k + 1]

\* the Reports tab on the fetched ledger.  The x-axis range of the trend chart
\* is [month_str.iloc[-12], month_str.iloc[-1]]; an IndexError there ends the
\* script run, so nothing after it is rendered.
Reports(fetched) ==
    IF fetched = <<>>
    THEN [empty |-> TRUE, habit_summary |-> <<>>, monthly_summary |-> <<>>,
          weekday_data |-> <<>>, monthly_avg |-> <<>>, range |-> <<>>,
          error |-> "", category_total |-> <<>>]
    ELSE LET df == WithReportColumns(fetched)
             trend == monthly_avg(df)
             ok == IndexInBounds(trend, -TrendWindow)
         IN [empty |-> FALSE,
             habit_summary |-> habit_summary(df),
             monthly_summary |-> monthly_summary(df),
             weekday_data |-> weekday_data(df),
             monthly_avg |-> trend,
             range |-> IF ok THEN <<iloc(trend, -TrendWindow).month_str, iloc(trend, -1).month_str>>
                       ELSE <<>>,
             error |-> IF ok THEN "" ELSE "IndexError",
             category_total |-> IF ok THEN cat_data(df) ELSE <<>>]

\* the sidebar summary
Sidebar(df) ==
    IF df = <<>> THEN [empty |-> TRUE, total |-> 0, entries |-> 0, avg |-> NaN]
    ELSE [empty |-> FALSE, total |-> ColSum(df, "amount"), entries |-> Len(df),
          avg |-> ColMean(df, "amount")]

-----------------------------------------------------------------------------
(* Inputs *)

\* "a.b@x.y", "a_b@x.y", "c@x.y"
EmailDot == <<"a", ".", "b", "@", "x", ".", "y">>
EmailUnderscore == <<"a", "_", "b", "@", "x", ".", "y">>
EmailOther == <<"c", "@", "x", ".", "y">>
Emails == {EmailDot, EmailUnderscore, EmailOther}

\* the identities Google can verify: the id token's claims
UserInfo(email) == [email |-> email, name |-> "user"]

\* float(amt): the amount the number_input holds (min_value=0.0), unchanged
float(amt) == amt
\* int(nec): the checkbox as 0 or 1
int(nec) == IF nec THEN 1 ELSE 0
\* dt.strftime("%Y-%m-%d"): the date picked, as text
strftime_date(dt) == <<dt.year, dt.month, dt.day>>
Date(y, m, d) == [year |-> y, month |-> m, day |-> d]

Expense(amount, category, date, necessary, description) ==
    [amount |-> amount, category |-> category, date |-> date,
     necessary |-> necessary, description |-> description]

\* what the Add Expense form is submitted with
FormInputs ==
    {Expense(100, "Food", Date(2024, 1, 5), TRUE, "lunch"),
     Expense(50, "Transport", Date(2024, 2, 1), FALSE, "taxi")}

LedgerInputs ==
    {Expense(100, "Food", Date(2024, 1, 5), TRUE, "groceries"),
     Expense(50, "Food", Date(2024, 1, 20), FALSE, "snacks"),
     Expense(200, "Transport", Date(2024, 2, 1), TRUE, "pass"),
     Expense(500, "Utilities", Date(2024, 1, 5), TRUE, "power"),
     Expense(500, "Entertainment", Date(2024, 1, 20), FALSE, "concert"),
     Expense(800, "Utilities", Date(2025, 1, 6), TRUE, "rent"),
     Expense(200, "Transport", Date(2025, 1, 6), FALSE, "taxi"),
     Expense(0, "Miscellaneous", Date(2024, 2, 1), FALSE, "voucher")}

TopInputs ==
    {Expense(100, "Food", Date(2024, 1, 20), TRUE, "lunch"),
     Expense(200, "Food", Date(2024, 1, 5), FALSE, "dinner")}

-----------------------------------------------------------------------------
(* Script runs *)

NoFiles == [p \in {} |-> <<>>]
NoSession == [k \in {} |-> <<>>]

\* a run that stopped, or restarted, before the sidebar
Stopped(page) ==
    [page |-> page, df_sidebar |-> <<>>, sidebar |-> Sidebar(<<>>),
     df_dash |-> <<>>, dash |-> Dashboard(<<>>, <<>>), submitted |-> FALSE,
     df_rep |-> <<>>, reports |-> Reports(<<>>), all_rendered |-> FALSE, df_all |-> <<>>]

Init ==
    /\ fs = NoFiles
    /\ session_state = NoSession
    /\ run = Stopped("none")
    /\ added = [e \in Emails |-> <<>>]

LoggedIn == "google_email" \in DOMAIN session_state
user_email == session_state["google_email"]

\* 4a) ?code=...: the token exchange succeeds and verify_token returns user_info
OAuthCallbackVerified(user_info) ==
    /\ session_state' = [k \in DOMAIN session_state \cup {"google_email", "google_user_info"} |->
                            IF k = "google_email" THEN user_info.email
                            ELSE IF k = "google_user_info" THEN user_info
                            ELSE session_state[k]]
    /\ run' = Stopped("rerun")
    /\ UNCHANGED <<fs, added>>

\* the failed callback storing an email all the same
OAuthCallbackFailed_stores_email ==
    /\ \E e \in Emails :
          session_state' = [k \in DOMAIN session_state \cup {"google_email"} |->
                               IF k = "google_email" THEN e ELSE session_state[k]]
    /\ run' = Stopped("error")
    /\ UNCHANGED <<fs, added>>

\* 4a) ?code=...: the token exchange raises HTTPError, or verify_token returns None
OAuthCallbackFailed ==
    /\ run' = Stopped("error")
    /\ UNCHANGED <<fs, session_state, added>>

\* 4b) no "google_email" in the session: the login button, then st.stop()
LoginPage ==
    /\ ~LoggedIn
    /\ run' = Stopped("login")
    /\ UNCHANGED <<fs, session_state, added>>

\* 5) the sidebar fetches, the Logout button deletes both keys and reruns
RunLogout ==
    /\ LoggedIn
    /\ fs' = get_connection_for_email(fs, user_email)
    /\ session_state' = [k \in DOMAIN session_state \ {"google_email", "google_user_info"} |->
                            session_state[k]]
    /\ run' = [Stopped("rerun") EXCEPT
                  !.df_sidebar = get_expenses_df(fs, user_email),
                  !.sidebar = Sidebar(get_expenses_df(fs, user_email))]
    /\ UNCHANGED added

\* 5), 6) a run of the main page: the sidebar, the Dashboard, the Add Expense
\* form (submitted or not), Reports, All Entries.  Each value the script
\* computes once is bound once (\E x \in {e}).
Main(submitted, form) ==
    /\ LoggedIn
    /\ \E df_sidebar \in {get_expenses_df(fs, user_email)} :
       \E df_dash \in {get_expenses_df(fs, user_email)} :
       \E top \in top5(WithDatetime(df_dash)) :
       \E fs1 \in {IF submitted
                   THEN add_expense(fs, user_email, float(form.amount), form.category,
                                    strftime_date(form.date), int(form.necessary),
                                    form.description)
                   ELSE get_connection_for_email(fs, user_email)} :
       \E df_rep \in {get_expenses_df(fs1, user_email)} :
       \E reports \in {Reports(df_rep)} :
       \E df_all \in {get_expenses_df(fs1, user_email)} :
          /\ fs' = fs1
          /\ run' = [page |-> "main",
                     df_sidebar |-> df_sidebar, sidebar |-> Sidebar(df_sidebar),
                     df_dash |-> df_dash, dash |-> Dashboard(df_dash, top),
                     submitted |-> submitted,
                     df_rep |-> df_rep, reports |-> reports,
                     all_rendered |-> reports.error = "",
                     df_all |-> IF reports.error = "" THEN df_all ELSE <<>>]
          /\ added' = IF submitted THEN [added EXCEPT ![user_email] = Append(@, form)]
                      ELSE added
    /\ UNCHANGED session_state

RunView == Main(FALSE, CHOOSE x \in FormInputs : TRUE)

\* the Add Expense form is submitted with one of inputs, the ledger holding < cap rows
RunAddExpense(inputs, cap) ==
    \E form \in inputs :
        /\ LoggedIn
        /\ Len(get_expenses_df(fs, user_email)) < cap
        /\ Main(TRUE, form)

Next ==
    \/ \E e \in Emails : OAuthCallbackVerified(UserInfo(e))
    \/ OAuthCallbackFailed
    \/ LoginPage
    \/ RunLogout
    \/ RunView
    \/ RunAddExpense(FormInputs, MaxRows)

Spec == Init /\ [][Next]_vars

\* one signed-in user, the ledger growing to MaxLen rows
InitSignedIn ==
    /\ fs = NoFiles
    /\ session_state = [k \in {"google_email", "google_user_info"} |->
                           IF k = "google_email" THEN EmailOther ELSE UserInfo(EmailOther)]
    /\ run = Stopped("rerun")
    /\ added = [e \in Emails |-> <<>>]

NextLedger == RunView \/ RunAddExpense(LedgerInputs, MaxLen)
SpecLedger == InitSignedIn /\ [][NextLedger]_vars

\* the values add_expense is given for is_necessary when it is called directly:
\* the column is INTEGER NOT NULL, with no CHECK
StoredFlags == {0, 1, 2}

\* add_expense(email, ..., is_necessary, ...) called for the signed-in user's
\* ledger, not through the form: the ledger holding < cap rows
CallAddExpenseFlag(cap) ==
    \E form \in FormInputs, is_necessary \in StoredFlags :
        /\ LoggedIn
        /\ Len(get_expenses_df(fs, user_email)) < cap
        /\ fs' = add_expense(fs, user_email, float(form.amount), form.category,
                             strftime_date(form.date), is_necessary, form.description)
        /\ run' = Stopped("call")
        /\ UNCHANGED <<session_state, added>>

\* one signed-in user, the ledger written by direct calls
NextFlags == RunView \/ CallAddExpenseFlag(MaxLen)
SpecFlags == InitSignedIn /\ [][NextFlags]_vars

RECURSIVE SeqsUpTo(_, _)
\* the sequences of at most n elements of S
SeqsUpTo(S, n) ==
    IF n = 0 THEN {<<>>}
    ELSE LET shorter == SeqsUpTo(S, n - 1)
         IN shorter \cup {Append(q, x) : q \in {r \in shorter : Len(r) = n - 1}, x \in S}

RECURSIVE AddAll(_, _, _)
\* the files after add_expense is called for each form of forms, in order
AddAll(files, email, forms) ==
    IF forms = <<>> THEN files
    ELSE AddAll(add_expense(files, email, float(Head(forms).amount), Head(forms).category,
                            strftime_date(Head(forms).date), int(Head(forms).necessary),
                            Head(forms).description),
                email, Tail(forms))

\* one signed-in user whose ledger holds up to MaxTopLen rows, added earlier
InitTop ==
    \E forms \in SeqsUpTo(TopInputs, MaxTopLen) :
        /\ fs = AddAll(NoFiles, EmailOther, forms)
        /\ session_state = [k \in {"google_email", "google_user_info"} |->
                               IF k = "google_email" THEN EmailOther ELSE UserInfo(EmailOther)]
        /\ run = Stopped("rerun")
        /\ added = [e \in Emails |-> IF e = EmailOther THEN forms ELSE <<>>]

\* the first run on that ledger (a later run has the same possible results)
NextTop == run.page = "rerun" /\ RunView
SpecTop == InitTop /\ [][NextTop]_vars

-----------------------------------------------------------------------------
(* app.py: the username/password variant over one shared database.
   In its specifications fs maps DB to the two tables of init_db.py and the
   file's write lock,
   session_state is the record of user_id, page and show_register, and
   added records what was submitted. *)

\* DB = "expense_tracker.db"
DB == <<"e", "x", "p", "e", "n", "s", "e", "_", "t", "r", "a", "c", "k", "e", "r", ".", "d", "b">>

\* Python's None where an id is expected; AUTOINCREMENT ids start at 1
None == 0

\* init_db.py: the users and the expenses table, both empty.  write_lock: a
\* connection that was never closed holds the file's write lock in a
\* transaction left open.
init_db == [users |-> <<>>, expenses |-> <<>>, write_lock |-> FALSE]

\* A connection nothing refers to any more is closed by the interpreter, its
\* transaction rolled back, at a moment the script does not choose: before a
\* call the lock of a leaked connection is still held, or has been released.
gc_collect(files) == {files, [files EXCEPT ![DB].write_lock = FALSE]}

\* get_connection(): the tables of the shared database file
get_connection(files) == files[DB]

\* sha256(password.encode()).hexdigest(): a digest, equal only for equal passwords
sha256(password) == [hexdigest |-> password]

\* create_user with the UNIQUE constraint on the email only
create_user_email_only(files, username, password, email) ==
    LET users == get_connection(files).users
    IN IF get_connection(files).write_lock
       THEN [success |-> FALSE, error |-> "OperationalError", files |-> files]
       ELSE IF \E i \in 1..Len(users) : users[i].email = email
       THEN [success |-> FALSE, error |-> "", files |-> files]
       ELSE [success |-> TRUE, error |-> "",
             files |-> [files EXCEPT ![DB].users =
                           Append(users, [id |-> Len(users) + 1, username |-> username,
                                          password_hash |-> sha256(password),
                                          email |-> email])]]

\* create_user: INSERT INTO users; username TEXT UNIQUE NOT NULL, email TEXT UNIQUE.
\* The form passes the email as text, "" when left empty (never NULL), and
\* UNIQUE compares texts: IntegrityError -> False, nothing stored.  While another
\* connection holds the write lock the INSERT raises OperationalError
\* ("database is locked"), which the function does not catch; finally closes.
create_user(files, username, password, email) ==
    LET users == get_connection(files).users
    IN IF get_connection(files).write_lock
       THEN [success |-> FALSE, error |-> "OperationalError", files |-> files]
       ELSE IF \E i \in 1..Len(users) : users[i].username = username \/ users[i].email = email
       THEN [success |-> FALSE, error |-> "", files |-> files]
       ELSE [success |-> TRUE, error |-> "",
             files |-> [files EXCEPT ![DB].users =
                           Append(users, [id |-> Len(users) + 1, username |-> username,
                                          password_hash |-> sha256(password),
                                          email |-> email])]]

\* login_user without the password_hash condition
login_user_any_password(files, identifier, password) ==
    LET users == get_connection(files).users
        match == {i \in 1..Len(users) :
                     users[i].username = identifier \/ users[i].email = identifier}
    IN IF match = {} THEN {None} ELSE {users[i].id : i \in match}

\* login_user: SELECT id FROM users WHERE (username=? OR email=?) AND password_hash=?
\* then fetchone().  The query has no ORDER BY: with several matching rows
\* any of them may come first.  The set of ids the call may return.
login_user(files, identifier, password) ==
    LET users == get_connection(files).users
        match == {i \in 1..Len(users) :
                     /\ users[i].username = identifier \/ users[i].email = identifier
                     /\ users[i].password_hash = sha256(password)}
    IN IF match = {} THEN {None} ELSE {users[i].id : i \in match}

\* The value a REAL column holds for a whole number, and the float64 a
\* dataframe gets for a stored REAL (a whole one is the number itself)
REAL(amount) == Frac(amount, 1)
float64(real) == IF real.den = 1 THEN real.num ELSE real

\* app.py add_expense: INSERT INTO expenses; amount REAL NOT NULL CHECK(amount >= 0),
\* CHECK(length(category) <= 50).  A failed CHECK raises IntegrityError and
\* stores nothing; conn.close() is then never reached (no finally), so the
\* connection stays open with its transaction and the write lock.  While the
\* lock is held the INSERT of any call raises OperationalError ("database is
\* locked") and stores nothing.  The checkbox's bool is stored as 0 or 1.
app_add_expense(files, user_id, amount, category, date, is_necessary, description) ==
    LET expenses == get_connection(files).expenses
    IN IF get_connection(files).write_lock
       THEN [error |-> "OperationalError", files |-> files]
       ELSE IF amount >= 0 /\ Len(category) <= 50
       THEN [error |-> "",
             files |-> [files EXCEPT ![DB].expenses =
                           Append(expenses, [id |-> Len(expenses) + 1, user_id |-> user_id,
                                             amount |-> REAL(amount), category |-> category,
                                             date |-> date, is_necessary |-> is_necessary,
                                             description |-> description])]]
       ELSE [error |-> "IntegrityError", files |-> [files EXCEPT ![DB].write_lock = TRUE]]

\* get_expenses: SELECT * FROM expenses WHERE user_id=? ORDER BY date DESC
get_expenses(files, user_id) ==
    LET rows == OrderByDateDesc(SelectSeq(get_connection(files).expenses,
                                          LAMBDA r : r.user_id = user_id))
    IN [i \in 1..Len(rows) |-> [rows[i] EXCEPT !.amount = float64(@)]]

\* SELECT username FROM users WHERE id=?: the rows found
username_of(files, user_id) ==
    SelectSeq(get_connection(files).users, LAMBDA u : u.id = user_id)

\* The texts typed into the forms of app.py are sequences of code points
\* (ord of each character).  \w of a str pattern matches the Unicode letters
\* and digits and the underscore: the code points of these ranges, each
\* <<first, last>>, as the re module of Python 3.11 (Unicode 14.0) has them.
WordRanges ==
    <<
     <<48, 57>>, <<65, 90>>, <<95, 95>>, <<97, 122>>, <<170, 170>>, <<178, 179>>, <<181, 181>>,
     <<185, 186>>, <<188, 190>>, <<192, 214>>, <<216, 246>>, <<248, 705>>, <<710, 721>>,
     <<736, 740>>, <<748, 748>>, <<750, 750>>, <<880, 884>>, <<886, 887>>, <<890, 893>>,
     <<895, 895>>, <<902, 902>>, <<904, 906>>, <<908, 908>>, <<910, 929>>, <<931, 1013>>,
     <<1015, 1153>>, <<1162, 1327>>, <<1329, 1366>>, <<1369, 1369>>, <<1376, 1416>>,
     <<1488, 1514>>, <<1519, 1522>>, <<1568, 1610>>, <<1632, 1641>>, <<1646, 1647>>,
     <<1649, 1747>>, <<1749, 1749>>, <<1765, 1766>>, <<1774, 1788>>, <<1791, 1791>>,
     <<1808, 1808>>, <<1810, 1839>>, <<1869, 1957>>, <<1969, 1969>>, <<1984, 2026>>,
     <<2036, 2037>>, <<2042, 2042>>, <<2048, 2069>>, <<2074, 2074>>, <<2084, 2084>>,
     <<2088, 2088>>, <<2112, 2136>>, <<2144, 2154>>, <<2160, 2183>>, <<2185, 2190>>,
     <<2208, 2249>>, <<2308, 2361>>, <<2365, 2365>>, <<2384, 2384>>, <<2392, 2401>>,
     <<2406, 2415>>, <<2417, 2432>>, <<2437, 2444>>, <<2447, 2448>>, <<2451, 2472>>,
     <<2474, 2480>>, <<2482, 2482>>, <<2486, 2489>>, <<2493, 2493>>, <<2510, 2510>>,
     <<2524, 2525>>, <<2527, 2529>>, <<2534, 2545>>, <<2548, 2553>>, <<2556, 2556>>,
     <<2565, 2570>>, <<2575, 2576>>, <<2579, 2600>>, <<2602, 2608>>, <<2610, 2611>>,
     <<2613, 2614>>, <<2616, 2617>>, <<2649, 2652>>, <<2654, 2654>>, <<2662, 2671>>,
     <<2674, 2676>>, <<2693, 2701>>, <<2703, 2705>>, <<2707, 2728>>, <<2730, 2736>>,
     <<2738, 2739>>, <<2741, 2745>>, <<2749, 2749>>, <<2768, 2768>>, <<2784, 2785>>,
     <<2790, 2799>>, <<2809, 2809>>, <<2821, 2828>>, <<2831, 2832>>, <<2835, 2856>>,
     <<2858, 2864>>, <<2866, 2867>>, <<2869, 2873>>, <<2877, 2877>>, <<2908, 2909>>,
     <<2911, 2913>>, <<2918, 2927>>, <<2929, 2935>>, <<2947, 2947>>, <<2949, 2954>>,
     <<2958, 2960>>, <<2962, 2965>>, <<2969, 2970>>, <<2972, 2972>>, <<2974, 2975>>,
     <<2979, 2980>>, <<2984, 2986>>, <<2990, 3001>>, <<3024, 3024>>, <<3046, 3058>>,
     <<3077, 3084>>, <<3086, 3088>>, <<3090, 3112>>, <<3114, 3129>>, <<3133, 3133>>,
     <<3160, 3162>>, <<3165, 3165>>, <<3168, 3169>>, <<3174, 3183>>, <<3192, 3198>>,
     <<3200, 3200>>, <<3205, 3212>>, <<3214, 3216>>, <<3218, 3240>>, <<3242, 3251>>,
     <<3253, 3257>>, <<3261, 3261>>, <<3293, 3294>>, <<3296, 3297>>, <<3302, 3311>>,
     <<3313, 3314>>, <<3332, 3340>>, <<3342, 3344>>, <<3346, 3386>>, <<3389, 3389>>,
     <<3406, 3406>>, <<3412, 3414>>, <<3416, 3425>>, <<3430, 3448>>, <<3450, 3455>>,
     <<3461, 3478>>, <<3482, 3505>>, <<3507, 3515>>, <<3517, 3517>>, <<3520, 3526>>,
     <<3558, 3567>>, <<3585, 3632>>, <<3634, 3635>>, <<3648, 3654>>, <<3664, 3673>>,
     <<3713, 3714>>, <<3716, 3716>>, <<3718, 3722>>, <<3724, 3747>>, <<3749, 3749>>,
     <<3751, 3760>>, <<3762, 3763>>, <<3773, 3773>>, <<3776, 3780>>, <<3782, 3782>>,
     <<3792, 3801>>, <<3804, 3807>>, <<3840, 3840>>, <<3872, 3891>>, <<3904, 3911>>,
     <<3913, 3948>>, <<3976, 3980>>, <<4096, 4138>>, <<4159, 4169>>, <<4176, 4181>>,
     <<4186, 4189>>, <<4193, 4193>>, <<4197, 4198>>, <<4206, 4208>>, <<4213, 4225>>,
     <<4238, 4238>>, <<4240, 4249>>, <<4256, 4293>>, <<4295, 4295>>, <<4301, 4301>>,
     <<4304, 4346>>, <<4348, 4680>>, <<4682, 4685>>, <<4688, 4694>>, <<4696, 4696>>,
     <<4698, 4701>>, <<4704, 4744>>, <<4746, 4749>>, <<4752, 4784>>, <<4786, 4789>>,
     <<4792, 4798>>, <<4800, 4800>>, <<4802, 4805>>, <<4808, 4822>>, <<4824, 4880>>,
     <<4882, 4885>>, <<4888, 4954>>, <<4969, 4988>>, <<4992, 5007>>, <<5024, 5109>>,
     <<5112, 5117>>, <<5121, 5740>>, <<5743, 5759>>, <<5761, 5786>>, <<5792, 5866>>,
     <<5870, 5880>>, <<5888, 5905>>, <<5919, 5937>>, <<5952, 5969>>, <<5984, 5996>>,
     <<5998, 6000>>, <<6016, 6067>>, <<6103, 6103>>, <<6108, 6108>>, <<6112, 6121>>,
     <<6128, 6137>>, <<6160, 6169>>, <<6176, 6264>>, <<6272, 6276>>, <<6279, 6312>>,
     <<6314, 6314>>, <<6320, 6389>>, <<6400, 6430>>, <<6470, 6509>>, <<6512, 6516>>,
     <<6528, 6571>>, <<6576, 6601>>, <<6608, 6618>>, <<6656, 6678>>, <<6688, 6740>>,
     <<6784, 6793>>, <<6800, 6809>>, <<6823, 6823>>, <<6917, 6963>>, <<6981, 6988>>,
     <<6992, 7001>>, <<7043, 7072>>, <<7086, 7141>>, <<7168, 7203>>, <<7232, 7241>>,
     <<7245, 7293>>, <<7296, 7304>>, <<7312, 7354>>, <<7357, 7359>>, <<7401, 7404>>,
     <<7406, 7411>>, <<7413, 7414>>, <<7418, 7418>>, <<7424, 7615>>, <<7680, 7957>>,
     <<7960, 7965>>, <<7968, 8005>>, <<8008, 8013>>, <<8016, 8023>>, <<8025, 8025>>,
     <<8027, 8027>>, <<8029, 8029>>, <<8031, 8061>>, <<8064, 8116>>, <<8118, 8124>>,
     <<8126, 8126>>, <<8130, 8132>>, <<8134, 8140>>, <<8144, 8147>>, <<8150, 8155>>,
     <<8160, 8172>>, <<8178, 8180>>, <<8182, 8188>>, <<8304, 8305>>, <<8308, 8313>>,
     <<8319, 8329>>, <<8336, 8348>>, <<8450, 8450>>, <<8455, 8455>>, <<8458, 8467>>,
     <<8469, 8469>>, <<8473, 8477>>, <<8484, 8484>>, <<8486, 8486>>, <<8488, 8488>>,
     <<8490, 8493>>, <<8495, 8505>>, <<8508, 8511>>, <<8517, 8521>>, <<8526, 8526>>,
     <<8528, 8585>>, <<9312, 9371>>, <<9450, 9471>>, <<10102, 10131>>, <<11264, 11492>>,
     <<11499, 11502>>, <<11506, 11507>>, <<11517, 11517>>, <<11520, 11557>>, <<11559, 11559>>,
     <<11565, 11565>>, <<11568, 11623>>, <<11631, 11631>>, <<11648, 11670>>, <<11680, 11686>>,
     <<11688, 11694>>, <<11696, 11702>>, <<11704, 11710>>, <<11712, 11718>>, <<11720, 11726>>,
     <<11728, 11734>>, <<11736, 11742>>, <<11823, 11823>>, <<12293, 12295>>, <<12321, 12329>>,
     <<12337, 12341>>, <<12344, 12348>>, <<12353, 12438>>, <<12445, 12447>>, <<12449, 12538>>,
     <<12540, 12543>>, <<12549, 12591>>, <<12593, 12686>>, <<12690, 12693>>, <<12704, 12735>>,
     <<12784, 12799>>, <<12832, 12841>>, <<12872, 12879>>, <<12881, 12895>>, <<12928, 12937>>,
     <<12977, 12991>>, <<13312, 19903>>, <<19968, 42124>>, <<42192, 42237>>, <<42240, 42508>>,
     <<42512, 42539>>, <<42560, 42606>>, <<42623, 42653>>, <<42656, 42735>>, <<42775, 42783>>,
     <<42786, 42888>>, <<42891, 42954>>, <<42960, 42961>>, <<42963, 42963>>, <<42965, 42969>>,
     <<42994, 43009>>, <<43011, 43013>>, <<43015, 43018>>, <<43020, 43042>>, <<43056, 43061>>,
     <<43072, 43123>>, <<43138, 43187>>, <<43216, 43225>>, <<43250, 43255>>, <<43259, 43259>>,
     <<43261, 43262>>, <<43264, 43301>>, <<43312, 43334>>, <<43360, 43388>>, <<43396, 43442>>,
     <<43471, 43481>>, <<43488, 43492>>, <<43494, 43518>>, <<43520, 43560>>, <<43584, 43586>>,
     <<43588, 43595>>, <<43600, 43609>>, <<43616, 43638>>, <<43642, 43642>>, <<43646, 43695>>,
     <<43697, 43697>>, <<43701, 43702>>, <<43705, 43709>>, <<43712, 43712>>, <<43714, 43714>>,
     <<43739, 43741>>, <<43744, 43754>>, <<43762, 43764>>, <<43777, 43782>>, <<43785, 43790>>,
     <<43793, 43798>>, <<43808, 43814>>, <<43816, 43822>>, <<43824, 43866>>, <<43868, 43881>>,
     <<43888, 44002>>, <<44016, 44025>>, <<44032, 55203>>, <<55216, 55238>>, <<55243, 55291>>,
     <<63744, 64109>>, <<64112, 64217>>, <<64256, 64262>>, <<64275, 64279>>, <<64285, 64285>>,
     <<64287, 64296>>, <<64298, 64310>>, <<64312, 64316>>, <<64318, 64318>>, <<64320, 64321>>,
     <<64323, 64324>>, <<64326, 64433>>, <<64467, 64829>>, <<64848, 64911>>, <<64914, 64967>>,
     <<65008, 65019>>, <<65136, 65140>>, <<65142, 65276>>, <<65296, 65305>>, <<65313, 65338>>,
     <<65345, 65370>>, <<65382, 65470>>, <<65474, 65479>>, <<65482, 65487>>, <<65490, 65495>>,
     <<65498, 65500>>, <<65536, 65547>>, <<65549, 65574>>, <<65576, 65594>>, <<65596, 65597>>,
     <<65599, 65613>>, <<65616, 65629>>, <<65664, 65786>>, <<65799, 65843>>, <<65856, 65912>>,
     <<65930, 65931>>, <<66176, 66204>>, <<66208, 66256>>, <<66273, 66299>>, <<66304, 66339>>,
     <<66349, 66378>>, <<66384, 66421>>, <<66432, 66461>>, <<66464, 66499>>, <<66504, 66511>>,
     <<66513, 66517>>, <<66560, 66717>>, <<66720, 66729>>, <<66736, 66771>>, <<66776, 66811>>,
     <<66816, 66855>>, <<66864, 66915>>, <<66928, 66938>>, <<66940, 66954>>, <<66956, 66962>>,
     <<66964, 66965>>, <<66967, 66977>>, <<66979, 66993>>, <<66995, 67001>>, <<67003, 67004>>,
     <<67072, 67382>>, <<67392, 67413>>, <<67424, 67431>>, <<67456, 67461>>, <<67463, 67504>>,
     <<67506, 67514>>, <<67584, 67589>>, <<67592, 67592>>, <<67594, 67637>>, <<67639, 67640>>,
     <<67644, 67644>>, <<67647, 67669>>, <<67672, 67702>>, <<67705, 67742>>, <<67751, 67759>>,
     <<67808, 67826>>, <<67828, 67829>>, <<67835, 67867>>, <<67872, 67897>>, <<67968, 68023>>,
     <<68028, 68047>>, <<68050, 68096>>, <<68112, 68115>>, <<68117, 68119>>, <<68121, 68149>>,
     <<68160, 68168>>, <<68192, 68222>>, <<68224, 68255>>, <<68288, 68295>>, <<68297, 68324>>,
     <<68331, 68335>>, <<68352, 68405>>, <<68416, 68437>>, <<68440, 68466>>, <<68472, 68497>>,
     <<68521, 68527>>, <<68608, 68680>>, <<68736, 68786>>, <<68800, 68850>>, <<68858, 68899>>,
     <<68912, 68921>>, <<69216, 69246>>, <<69248, 69289>>, <<69296, 69297>>, <<69376, 69415>>,
     <<69424, 69445>>, <<69457, 69460>>, <<69488, 69505>>, <<69552, 69579>>, <<69600, 69622>>,
     <<69635, 69687>>, <<69714, 69743>>, <<69745, 69746>>, <<69749, 69749>>, <<69763, 69807>>,
     <<69840, 69864>>, <<69872, 69881>>, <<69891, 69926>>, <<69942, 69951>>, <<69956, 69956>>,
     <<69959, 69959>>, <<69968, 70002>>, <<70006, 70006>>, <<70019, 70066>>, <<70081, 70084>>,
     <<70096, 70106>>, <<70108, 70108>>, <<70113, 70132>>, <<70144, 70161>>, <<70163, 70187>>,
     <<70272, 70278>>, <<70280, 70280>>, <<70282, 70285>>, <<70287, 70301>>, <<70303, 70312>>,
     <<70320, 70366>>, <<70384, 70393>>, <<70405, 70412>>, <<70415, 70416>>, <<70419, 70440>>,
     <<70442, 70448>>, <<70450, 70451>>, <<70453, 70457>>, <<70461, 70461>>, <<70480, 70480>>,
     <<70493, 70497>>, <<70656, 70708>>, <<70727, 70730>>, <<70736, 70745>>, <<70751, 70753>>,
     <<70784, 70831>>, <<70852, 70853>>, <<70855, 70855>>, <<70864, 70873>>, <<71040, 71086>>,
     <<71128, 71131>>, <<71168, 71215>>, <<71236, 71236>>, <<71248, 71257>>, <<71296, 71338>>,
     <<71352, 71352>>, <<71360, 71369>>, <<71424, 71450>>, <<71472, 71483>>, <<71488, 71494>>,
     <<71680, 71723>>, <<71840, 71922>>, <<71935, 71942>>, <<71945, 71945>>, <<71948, 71955>>,
     <<71957, 71958>>, <<71960, 71983>>, <<71999, 71999>>, <<72001, 72001>>, <<72016, 72025>>,
     <<72096, 72103>>, <<72106, 72144>>, <<72161, 72161>>, <<72163, 72163>>, <<72192, 72192>>,
     <<72203, 72242>>, <<72250, 72250>>, <<72272, 72272>>, <<72284, 72329>>, <<72349, 72349>>,
     <<72368, 72440>>, <<72704, 72712>>, <<72714, 72750>>, <<72768, 72768>>, <<72784, 72812>>,
     <<72818, 72847>>, <<72960, 72966>>, <<72968, 72969>>, <<72971, 73008>>, <<73030, 73030>>,
     <<73040, 73049>>, <<73056, 73061>>, <<73063, 73064>>, <<73066, 73097>>, <<73112, 73112>>,
     <<73120, 73129>>, <<73440, 73458>>, <<73648, 73648>>, <<73664, 73684>>, <<73728, 74649>>,
     <<74752, 74862>>, <<74880, 75075>>, <<77712, 77808>>, <<77824, 78894>>, <<82944, 83526>>,
     <<92160, 92728>>, <<92736, 92766>>, <<92768, 92777>>, <<92784, 92862>>, <<92864, 92873>>,
     <<92880, 92909>>, <<92928, 92975>>, <<92992, 92995>>, <<93008, 93017>>, <<93019, 93025>>,
     <<93027, 93047>>, <<93053, 93071>>, <<93760, 93846>>, <<93952, 94026>>, <<94032, 94032>>,
     <<94099, 94111>>, <<94176, 94177>>, <<94179, 94179>>, <<94208, 100343>>,
     <<100352, 101589>>, <<101632, 101640>>, <<110576, 110579>>, <<110581, 110587>>,
     <<110589, 110590>>, <<110592, 110882>>, <<110928, 110930>>, <<110948, 110951>>,
     <<110960, 111355>>, <<113664, 113770>>, <<113776, 113788>>, <<113792, 113800>>,
     <<113808, 113817>>, <<119520, 119539>>, <<119648, 119672>>, <<119808, 119892>>,
     <<119894, 119964>>, <<119966, 119967>>, <<119970, 119970>>, <<119973, 119974>>,
     <<119977, 119980>>, <<119982, 119993>>, <<119995, 119995>>, <<119997, 120003>>,
     <<120005, 120069>>, <<120071, 120074>>, <<120077, 120084>>, <<120086, 120092>>,
     <<120094, 120121>>, <<120123, 120126>>, <<120128, 120132>>, <<120134, 120134>>,
     <<120138, 120144>>, <<120146, 120485>>, <<120488, 120512>>, <<120514, 120538>>,
     <<120540, 120570>>, <<120572, 120596>>, <<120598, 120628>>, <<120630, 120654>>,
     <<120656, 120686>>, <<120688, 120712>>, <<120714, 120744>>, <<120746, 120770>>,
     <<120772, 120779>>, <<120782, 120831>>, <<122624, 122654>>, <<123136, 123180>>,
     <<123191, 123197>>, <<123200, 123209>>, <<123214, 123214>>, <<123536, 123565>>,
     <<123584, 123627>>, <<123632, 123641>>, <<124896, 124902>>, <<124904, 124907>>,
     <<124909, 124910>>, <<124912, 124926>>, <<124928, 125124>>, <<125127, 125135>>,
     <<125184, 125251>>, <<125259, 125259>>, <<125264, 125273>>, <<126065, 126123>>,
     <<126125, 126127>>, <<126129, 126132>>, <<126209, 126253>>, <<126255, 126269>>,
     <<126464, 126467>>, <<126469, 126495>>, <<126497, 126498>>, <<126500, 126500>>,
     <<126503, 126503>>, <<126505, 126514>>, <<126516, 126519>>, <<126521, 126521>>,
     <<126523, 126523>>, <<126530, 126530>>, <<126535, 126535>>, <<126537, 126537>>,
     <<126539, 126539>>, <<126541, 126543>>, <<126545, 126546>>, <<126548, 126548>>,
     <<126551, 126551>>, <<126553, 126553>>, <<126555, 126555>>, <<126557, 126557>>,
     <<126559, 126559>>, <<126561, 126562>>, <<126564, 126564>>, <<126567, 126570>>,
     <<126572, 126578>>, <<126580, 126583>>, <<126585, 126588>>, <<126590, 126590>>,
     <<126592, 126601>>, <<126603, 126619>>, <<126625, 126627>>, <<126629, 126633>>,
     <<126635, 126651>>, <<127232, 127244>>, <<130032, 130041>>, <<131072, 173791>>,
     <<173824, 177976>>, <<177984, 178205>>, <<178208, 183969>>, <<183984, 191456>>,
     <<194560, 195101>>, <<196608, 201546>>
    >>
\* \w and [\w\.-]
IsWordChar(c) == \E k \in 1..Len(WordRanges) : WordRanges[k][1] <= c /\ c <= WordRanges[k][2]
IsLocalChar(c) == c \in {46, 45} \/ IsWordChar(c)

\* ^[\w\.-]+@[\w\.-]+\.\w+ up to the end of s: some "@" (64) and some later
\* "." (46) split s into three non-empty runs of the allowed characters
email_pattern(s) ==
    \E i \in 1..Len(s) : \E j \in 1..Len(s) :
        /\ s[i] = 64 /\ s[j] = 46
        /\ 1 < i /\ i + 1 < j /\ j < Len(s)
        /\ \A k \in 1..(i - 1) : IsLocalChar(s[k])
        /\ \A k \in (i + 1)..(j - 1) : IsLocalChar(s[k])
        /\ \A k \in (j + 1)..Len(s) : IsWordChar(s[k])

\* re.match(r"^[\w\.-]+@[\w\.-]+\.\w+$", s): $ matches at the end of s and
\* also before a newline (10) that ends s
email_regex(s) ==
    \/ email_pattern(s)
    \/ /\ Len(s) > 0 /\ s[Len(s)] = 10
       /\ email_pattern(SubSeq(s, 1, Len(s) - 1))

\* register_form's checks, in order; "" when create_user is to be called
register_error(new_username, new_email, new_password) ==
    IF new_username = <<>> THEN "Username is required."
    ELSE IF Len(new_password) < 6 THEN "Password must be at least 6 characters long."
    ELSE IF new_email # <<>> /\ ~email_regex(new_email)
         THEN "Please enter a valid email address."
    ELSE ""

\* Reports of app.py assigns to the Dashboard's df in place:
\* df['date'] = pd.to_datetime(df['date']); df['Month'] = ...; df['Weekday'] = ...
app_WithReportColumns(df) ==
    [i \in 1..Len(df) |->
        LET ts == to_datetime(df[i].date)
        IN [id |-> df[i].id, user_id |-> df[i].user_id, amount |-> df[i].amount,
            category |-> df[i].category, date |-> ts,
            is_necessary |-> df[i].is_necessary, description |-> df[i].description,
            Month |-> strftime("%B %Y", ts.year, ts.month), Weekday |-> day_name(ts)]]

\* monthly_summary of app.py: the Month column holds the formatted period
app_monthly_summary(df) ==
    LET rows == monthly_summary(df)
    IN [k \in 1..Len(rows) |->
            [Month |-> rows[k].Month, TotalEntries |-> rows[k].TotalEntries,
             TotalSpent |-> rows[k].TotalSpent, Average |-> rows[k].Average,
             Max |-> rows[k].Max, Min |-> rows[k].Min]]

\* weekday_data of app.py: the same aggregation, the column named total_necessary
app_weekday_data(df) ==
    LET rows == weekday_data(df)
    IN [k \in 1..Len(rows) |->
            [Weekday |-> rows[k].Weekday, total_amount |-> rows[k].total_amount,
             avg_amount |-> rows[k].avg_amount, total_necessary |-> rows[k].total_necess,
             count |-> rows[k].count, necessity_ratio |-> rows[k].necessity_ratio]]

\* {1: "Necessary", 0: "Non-Necessary"} of app.py, the texts as code points:
\* the second is spelt with a HYPHEN-MINUS (45)
app_NecessityLabels ==
    [v \in {0, 1} |->
        IF v = 1 THEN <<78, 101, 99, 101, 115, 115, 97, 114, 121>>
        ELSE <<78, 111, 110, 45, 78, 101, 99, 101, 115, 115, 97, 114, 121>>]

\* necessity_data of the Dashboard of app.py
app_necessity_data(df) == groupby_is_necessary(df, app_NecessityLabels)

\* the Dashboard tab of app.py on df, with top as the sort's result
app_Dashboard(df, top) ==
    IF df = <<>>
    THEN [empty |-> TRUE, total_spent |-> 0, avg_spent |-> NaN, max_spent |-> 0,
          min_spent |-> 0, cat_data |-> <<>>, necessity_data |-> <<>>, top_expenses |-> <<>>]
    ELSE LET amounts == [i \in 1..Len(df) |-> df[i].amount]
         IN [empty |-> FALSE,
             total_spent |-> ColSum(df, "amount"),
             avg_spent |-> ColMean(df, "amount"),
             max_spent |-> MaxSeq(amounts),
             min_spent |-> MinSeq(amounts),
             cat_data |-> cat_data(df),
             necessity_data |-> app_necessity_data(df),
             top_expenses |-> [i \in 1..Len(top) |->
                                  [amount |-> top[i].amount, category |-> top[i].category,
                                   date |-> top[i].date, description |-> top[i].description]]]

\* the Reports tab of app.py on the df the Dashboard fetched.  after is df once
\* the tab has run: the tab assigns its columns before the trend chart whose
\* range is [month.iloc[-12], month.iloc[-1]].
app_Reports(df) ==
    IF df = <<>>
    THEN [empty |-> TRUE, after |-> <<>>, monthly_summary |-> <<>>, weekday_data |-> <<>>,
          monthly_avg |-> <<>>, range |-> <<>>, error |-> "", category_total |-> <<>>]
    ELSE LET after == app_WithReportColumns(df)
             trend == monthly_avg(after)
             ok == IndexInBounds(trend, -TrendWindow)
         IN [empty |-> FALSE,
             after |-> after,
             monthly_summary |-> app_monthly_summary(after),
             weekday_data |-> app_weekday_data(after),
             monthly_avg |-> trend,
             range |-> IF ok THEN <<iloc(trend, -TrendWindow).month_str, iloc(trend, -1).month_str>>
                       ELSE <<>>,
             error |-> IF ok THEN "" ELSE "IndexError",
             category_total |-> IF ok THEN cat_data(after) ELSE <<>>]

\* df.drop(columns=["user_id"]) on the df the Reports tab left behind
drop_user_id(df) ==
    [i \in 1..Len(df) |-> [c \in DOMAIN df[i] \ {"user_id"} |-> df[i][c]]]

\* what the login and register forms are filled with, as code points:
\* "bob"; "A@x.<U+03A9>" (a capital omega), "c@x", "c@x.<U+20AC>" (a euro
\* sign); "abc", "secret", "hunter2"
UserBob == <<98, 111, 98>>
EmailUpper == <<65, 64, 120, 46, 937>>
EmailMalformed == <<99, 64, 120>>
EmailSign == <<99, 64, 120, 46, 8364>>
PasswordShort == <<97, 98, 99>>
PasswordOne == <<115, 101, 99, 114, 101, 116>>
PasswordTwo == <<104, 117, 110, 116, 101, 114, 50>>
Usernames == {<<>>, UserBob, EmailUpper}
RegisterEmails == {<<>>, EmailUpper, EmailMalformed, EmailSign}
Passwords == {PasswordShort, PasswordOne, PasswordTwo}
UserIds == 1..Cardinality(Usernames \ {<<>>})

\* a run of app.py that rendered the auth page, or restarted, with its message;
\* register holds what the register form was submitted with, if it was, and
\* fetched_for the user_id the run's queries were made with, if any were
AppStopped(page, message) ==
    [page |-> page, message |-> message, register |-> <<>>, create_user_called |-> FALSE,
     fetched_for |-> <<>>, df_sidebar |-> <<>>, user_row |-> <<>>, df |-> <<>>,
     dash |-> app_Dashboard(<<>>, <<>>), submitted |-> FALSE,
     reports |-> app_Reports(<<>>), all_rendered |-> FALSE, all_entries |-> <<>>]

\* the session of a first run: user_id None, page "auth", show_register False
AppSession == [user_id |-> None, page |-> "auth", show_register |-> FALSE]
NothingAdded == [forms |-> [u \in UserIds |-> <<>>], matched |-> <<>>]

InitApp ==
    /\ fs = (DB :> init_db)
    /\ session_state = AppSession
    /\ run = AppStopped("none", "")
    /\ added = NothingAdded

\* the auth page rendered with no button pressed
AppAuthPage ==
    /\ session_state.page = "auth"
    /\ run' = AppStopped("auth", "")
    /\ UNCHANGED <<fs, session_state, added>>

\* Login pressed: login_user, then user_id and reroute("main"), or the error
AppLogin(identifier, password) ==
    /\ session_state.page = "auth" /\ ~session_state.show_register
    /\ \E uid \in login_user(fs, identifier, password) :
          IF uid # None
          THEN /\ session_state' = [session_state EXCEPT !.user_id = uid, !.page = "main"]
               /\ run' = AppStopped("rerun", "")
               /\ added' = [added EXCEPT !.matched = <<[identifier |-> identifier,
                                                        password |-> password]>>]
          ELSE /\ run' = AppStopped("auth", "Invalid credentials")
               /\ UNCHANGED <<session_state, added>>
    /\ UNCHANGED fs

\* "Register here" pressed
AppRegisterHere ==
    /\ session_state.page = "auth" /\ ~session_state.show_register
    /\ session_state' = [session_state EXCEPT !.show_register = TRUE]
    /\ run' = AppStopped("rerun", "")
    /\ UNCHANGED <<fs, added>>

\* the register form's fields when submitted, and the users table it met
RegisterForm(new_username, new_email, new_password) ==
    [username |-> new_username, email |-> new_email, password |-> new_password,
     users_before |-> get_connection(fs).users]

\* the register form submitted: an error of the form, or create_user and its
\* message.  After st.success the script waits in time.sleep(2), show_register
\* still True (run.page = "sleep"); an exception create_user lets through ends
\* the run.
AppRegister(new_username, new_email, new_password) ==
    /\ session_state.page = "auth" /\ session_state.show_register
    /\ \E error \in {register_error(new_username, new_email, new_password)} :
          IF error # ""
          THEN /\ run' = [AppStopped("auth", error) EXCEPT
                             !.register = <<RegisterForm(new_username, new_email,
                                                         new_password)>>]
               /\ UNCHANGED <<fs, session_state>>
          ELSE \E files \in gc_collect(fs) :
               \E created \in {create_user(files, new_username, new_password, new_email)} :
                  /\ fs' = created.files
                  /\ run' = [AppStopped(IF created.success THEN "sleep" ELSE "auth",
                                        IF created.error # "" THEN created.error
                                        ELSE IF created.success THEN "Registered successfully"
                                        ELSE "Username or Email already exists")
                                EXCEPT !.create_user_called = TRUE,
                                       !.register = <<RegisterForm(new_username, new_email,
                                                                   new_password)>>]
                  /\ UNCHANGED session_state
    /\ UNCHANGED added

\* time.sleep(2) is over: show_register = False, and the run ends.  (A run
\* that ends during the wait never gets here: any other action may come first.)
AppRegistered ==
    /\ run.page = "sleep"
    /\ session_state' = [session_state EXCEPT !.show_register = FALSE]
    /\ run' = [run EXCEPT !.page = "auth"]
    /\ UNCHANGED <<fs, added>>

\* "Back to Login" pressed
AppBackToLogin ==
    /\ session_state.page = "auth" /\ session_state.show_register
    /\ session_state' = [session_state EXCEPT !.show_register = FALSE]
    /\ run' = AppStopped("rerun", "")
    /\ UNCHANGED <<fs, added>>

\* the sidebar fetches, Logout sets user_id = None and reroutes to "auth"
AppLogout ==
    /\ session_state.page = "main"
    /\ session_state' = [session_state EXCEPT !.user_id = None, !.page = "auth"]
    /\ run' = [AppStopped("rerun", "") EXCEPT
                  !.fetched_for = <<session_state.user_id>>,
                  !.df_sidebar = get_expenses(fs, session_state.user_id),
                  !.user_row = username_of(fs, session_state.user_id)]
    /\ added' = [added EXCEPT !.matched = <<>>]
    /\ UNCHANGED fs

\* a run of the main page of app.py: the sidebar, the Dashboard's fetch into df,
\* the Add Expense form (submitted or not), then Reports and All Entries on df.
\* An exception of add_expense ends the run before Reports.
AppMain(submitted, form) ==
    /\ session_state.page = "main"
    /\ \E uid \in {session_state.user_id} :
       \E df_sidebar \in {get_expenses(fs, uid)} :
       \E df \in {get_expenses(fs, uid)} :
       \E top \in top5(df) :
       \E files \in gc_collect(fs) :
       \E result \in {IF submitted
                      THEN app_add_expense(files, uid, form.amount, form.category,
                                           strftime_date(form.date),
                                           IF form.necessary THEN 1 ELSE 0,
                                           form.description)
                      ELSE [error |-> "", files |-> fs]} :
       \E reports \in {IF result.error = "" THEN app_Reports(df) ELSE app_Reports(<<>>)} :
          /\ fs' = result.files
          /\ run' = [page |-> "main", message |-> result.error, register |-> <<>>,
                     create_user_called |-> FALSE, fetched_for |-> <<uid>>,
                     df_sidebar |-> df_sidebar, user_row |-> username_of(fs, uid),
                     df |-> df, dash |-> app_Dashboard(df, top), submitted |-> submitted,
                     reports |-> reports,
                     all_rendered |-> result.error = "" /\ reports.error = "",
                     all_entries |-> IF reports.error = "" THEN drop_user_id(reports.after)
                                     ELSE <<>>]
          /\ added' = IF submitted /\ result.error = "" /\ uid \in UserIds
                      THEN [added EXCEPT !.forms[uid] = Append(@, form)]
                      ELSE added
    /\ UNCHANGED session_state

AppView == AppMain(FALSE, CHOOSE x \in FormInputs : TRUE)

\* the Add Expense form of app.py submitted, the table holding < cap rows
AppAddExpense(inputs, cap) ==
    \E form \in inputs :
        /\ Len(get_connection(fs).expenses) < cap
        /\ AppMain(TRUE, form)

NextApp ==
    \/ AppAuthPage
    \/ \E identifier \in Usernames, password \in Passwords : AppLogin(identifier, password)
    \/ AppRegisterHere
    \/ \E u \in Usernames, e \in RegisterEmails, p \in Passwords : AppRegister(u, e, p)
    \/ AppRegistered
    \/ AppBackToLogin
    \/ AppLogout
    \/ AppView
    \/ AppAddExpense(FormInputs, MaxRows)

SpecApp == InitApp /\ [][NextApp]_vars

-----------------------------------------------------------------------------
(* app.py over a ledger of twelve months *)

\* what the Add Expense form was submitted with, once a month of 2024
YearInputs ==
    [m \in 1..TrendWindow |->
        Expense(15 + 20 * (m - 1), CategoryOrder[((m - 1) % 5) + 1], Date(2024, m, 10),
                m % 2 = 1, "monthly")]

RECURSIVE app_AddAll(_, _, _)
\* the database after the form's add_expense(user_id, ...) for each of forms in turn
app_AddAll(files, user_id, forms) ==
    IF forms = <<>> THEN files
    ELSE app_AddAll(app_add_expense(files, user_id, Head(forms).amount, Head(forms).category,
                                    strftime_date(Head(forms).date),
                                    IF Head(forms).necessary THEN 1 ELSE 0,
                                    Head(forms).description).files,
                    user_id, Tail(forms))

\* bob registered and YearInputs added in earlier sessions, no session now
InitYear ==
    /\ fs = app_AddAll(create_user((DB :> init_db), UserBob, PasswordOne, <<>>).files, 1,
                       YearInputs)
    /\ session_state = AppSession
    /\ run = AppStopped("none", "")
    /\ added = NothingAdded

NextYear ==
    \/ \E password \in Passwords : AppLogin(UserBob, password)
    \/ AppLogout
    \/ AppView
    \/ AppAddExpense(LedgerInputs, TrendWindow + MaxRows)

SpecYear == InitYear /\ [][NextYear]_vars

-----------------------------------------------------------------------------
(* injest_synth_data.py: synthetic rows written into the database of app.py *)

CATEGORIES == <<"Food", "Transport", "Utilities", "Entertainment", "Miscellaneous">>
MONTHS == 18
ENTRIES_PER_MONTH == 1398

\* get_user_id(username, password): the id of the user with this username and
\* password hash, None when there is none
get_user_id(files, username, password) ==
    LET found == SelectSeq(get_connection(files).users,
                           LAMBDA u : u.username = username
                                      /\ u.password_hash = sha256(password))
    IN IF found = <<>> THEN None ELSE found[1].id

\* date.toordinal(): the days from 0001-01-01 (day 1) to a Gregorian date
toordinal(dt) ==
    LET y == IF dt.month <= 2 THEN dt.year - 1 ELSE dt.year
        era == y \div 400
        yoe == y - era * 400
        mp == (dt.month + 9) % 12
        doy == ((153 * mp + 2) \div 5) + dt.day - 1
        doe == yoe * 365 + (yoe \div 4) - (yoe \div 100) + doy
    IN era * 146097 + doe - 305

\* date.fromordinal(n)
fromordinal(n) ==
    LET z == n + 305
        era == z \div 146097
        doe == z - era * 146097
        yoe == (doe - (doe \div 1460) + (doe \div 36524) - (doe \div 146096)) \div 365
        doy == doe - (365 * yoe + (yoe \div 4) - (yoe \div 100))
        mp == (5 * doy + 2) \div 153
        d == doy - ((153 * mp + 2) \div 5) + 1
        m == IF mp < 10 THEN mp + 3 ELSE mp - 9
    IN Date(yoe + era * 400 + (IF m <= 2 THEN 1 ELSE 0), m, d)

\* dt + timedelta(days=days)
timedelta(dt, days) == fromordinal(toordinal(dt) + days)

\* round(x, 2) where x is cents hundredths: the float, as a fraction
round2(cents) == Frac(cents, 100)

\* the k-th element of the sequence draws, taken round and round
Cycle(draws, k) == draws[((k - 1) % Len(draws)) + 1]

\* What the clock, random and faker give in one run: datetime.now() and, for
\* the k-th row written, random.uniform(10, 500) in hundredths, the index
\* random.choice takes in CATEGORIES, random.randint(0, 29),
\* random.choice([0, 1]) and fake.sentence.  Each column is drawn on its own,
\* from a sequence taken round and round.
SyntheticDraws ==
    {[now |-> Date(2025, 6, 30),
      amount |-> <<1001, 25050, 49999>>, category |-> <<1, 2, 3, 4, 5>>,
      days |-> <<0, 29, 14, 7>>, is_necessary |-> <<0, 1>>,
      description |-> "Sense fall public half"],
     [now |-> Date(2024, 8, 15),
      amount |-> <<50000, 1000, 12345, 30000>>, category |-> <<5, 5, 1>>,
      days |-> <<29, 0>>, is_necessary |-> <<1, 1, 0>>,
      description |-> "Around discuss north"]}

\* The values of the rows the two loops produce from the draws of a run, in
\* the order written: for each of the first months months the
\* ENTRIES_PER_MONTH rows of the month, each dated in the 30 days from
\* base_date, which starts 30 * MONTHS days before now and moves on by 30
\* days a month.
RECURSIVE synthetic_rows(_, _)
synthetic_rows(draws, months) ==
    IF months = 0 THEN <<>>
    ELSE LET month == months - 1
             base_date == timedelta(draws.now, 30 * month - 30 * MONTHS)
             row(k) ==
                 [amount |-> round2(Cycle(draws.amount, k)),
                  category |-> CATEGORIES[Cycle(draws.category, k)],
                  date |-> strftime_date(timedelta(base_date, Cycle(draws.days, k))),
                  is_necessary |-> Cycle(draws.is_necessary, k),
                  description |-> draws.description]
         IN synthetic_rows(draws, month)
                \o [e \in 1..ENTRIES_PER_MONTH |-> row(month * ENTRIES_PER_MONTH + e)]

\* the rows of each of SyntheticDraws, worked out once
SyntheticRows == {[draws |-> d, rows |-> synthetic_rows(d, MONTHS)] : d \in SyntheticDraws}
drawn_rows(draws) ==
    IF draws \in SyntheticDraws THEN (CHOOSE t \in SyntheticRows : t.draws = draws).rows
    ELSE synthetic_rows(draws, MONTHS)

\* insert_synthetic_expenses(user_id): the MONTHS * ENTRIES_PER_MONTH rows of
\* the loops, numbered by the table after the rows it holds; one commit at the
\* end makes all of them visible at once.  While a connection holds the write
\* lock the first INSERT raises OperationalError and nothing is written.
insert_synthetic_expenses(files, user_id, draws) ==
    LET old == get_connection(files).expenses
        rows == drawn_rows(draws)
    IN IF get_connection(files).write_lock
       THEN [error |-> "OperationalError", files |-> files]
       ELSE [error |-> "",
             files |-> [files EXCEPT ![DB].expenses =
                           old \o [k \in 1..Len(rows) |->
                                      [id |-> Len(old) + k, user_id |-> user_id,
                                       amount |-> rows[k].amount,
                                       category |-> rows[k].category,
                                       date |-> rows[k].date,
                                       is_necessary |-> rows[k].is_necessary,
                                       description |-> rows[k].description]]]]

-----------------------------------------------------------------------------
(* The storage layer of both variants, called directly *)

\* the amounts add_expense is called with
StoreAmounts == {-5, 0, 5}

\* a call of a storage function, with the exception it raised ("" for none)
Called(function, amount, error) ==
    [page |-> "call", function |-> function, amount |-> amount, error |-> error]

\* the rows the files hold: those of the expenses table of the shared
\* database and those of the per-user files
RECURSIVE StoredRows(_, _)
StoredRows(files, paths) ==
    IF paths = {} THEN 0
    ELSE LET p == CHOOSE q \in paths : TRUE
         IN Len(IF p = DB THEN files[p].expenses ELSE files[p])
                + StoredRows(files, paths \ {p})

\* the database after init_db.py and bob's registration, no per-user file
InitStore ==
    /\ fs = create_user((DB :> init_db), UserBob, PasswordOne, <<>>).files
    /\ session_state = NoSession
    /\ run = Called("none", 0, "")
    /\ added = <<>>

\* ai_app.add_expense(email, amount, ...), the files holding < cap rows
CallAddExpense(cap) ==
    /\ StoredRows(fs, DOMAIN fs) < cap
    /\ \E email \in Emails, amount \in StoreAmounts, form \in FormInputs :
           /\ fs' = add_expense(fs, email, amount, form.category, strftime_date(form.date),
                                int(form.necessary), form.description)
           /\ run' = Called("ai_app.add_expense", amount, "")
           /\ added' = Append(added, amount)
           /\ UNCHANGED session_state

\* the categories app.add_expense is called with: the second has 51 characters
StoreCategories == {"Food", "Miscellaneous and other things bought now and again"}

\* app.add_expense(user_id, amount, ...), the files holding < cap rows; a
\* connection an earlier call left behind may have been collected by now
CallAppAddExpense(cap) ==
    /\ StoredRows(fs, DOMAIN fs) < cap
    /\ \E user_id \in UserIds, amount \in StoreAmounts, category \in StoreCategories,
          form \in FormInputs :
       \E files \in gc_collect(fs) :
       \E result \in {app_add_expense(files, user_id, amount, category,
                                      strftime_date(form.date),
                                      IF form.necessary THEN 1 ELSE 0, form.description)} :
           /\ fs' = result.files
           /\ run' = Called("app.add_expense", amount, result.error)
           /\ added' = IF result.error = "" THEN Append(added, amount) ELSE added
           /\ UNCHANGED session_state

\* python injest_synth_data.py, the files holding < cap rows: the username
\* and password asked for, then the rows for that user or the refusal; a
\* connection an earlier call left behind may have been collected
RunInjestSynthData(cap) ==
    /\ StoredRows(fs, DOMAIN fs) < cap
    /\ \E username \in {UserBob}, password \in {PasswordOne, PasswordTwo},
          draws \in SyntheticDraws :
       \E user_id \in {get_user_id(fs, username, password)} :
       \E files \in gc_collect(fs) :
       \E result \in {IF user_id # None
                      THEN insert_synthetic_expenses(files, user_id, draws)
                      ELSE [error |-> "", files |-> fs]} :
           /\ fs' = result.files
           /\ run' = [page |-> "call", function |-> "injest_synth_data", amount |-> 0,
                      error |-> result.error,
                      printed |-> IF user_id = None THEN "Invalid username or password."
                                  ELSE IF result.error = "" THEN "Inserted" ELSE ""]
           /\ UNCHANGED <<session_state, added>>

NextStore ==
    \/ CallAddExpense(MaxRows)
    \/ CallAppAddExpense(MaxRows)
    \/ RunInjestSynthData(MaxRows)
SpecStore == InitStore /\ [][NextStore]_vars

-----------------------------------------------------------------------------
(* What the claims are stated with: sums and counts taken over row positions *)

RECURSIVE SumAmountsAt(_, _)
\* the sum of the amounts of the rows of df at the positions I
SumAmountsAt(df, I) ==
    IF I = {} THEN 0
    ELSE LET i == CHOOSE x \in I : TRUE IN df[i].amount + SumAmountsAt(df, I \ {i})

Rows(df) == 1..Len(df)
\* a fetched row's calendar month, read off its "YYYY-MM-DD" text
MonthOf(row) == <<row.date[1], row.date[2]>>
MonthsOf(df) == {MonthOf(df[i]) : i \in Rows(df)}
NonNecessaryTotal(df) == SumAmountsAt(df, {i \in Rows(df) : df[i].is_necessary # 1})
NecessaryTotal(df) == SumAmountsAt(df, {i \in Rows(df) : df[i].is_necessary = 1})
GrandTotal(df) == SumAmountsAt(df, Rows(df))

Rendered == run.page = "main"
DashShown == run.page = "main" /\ ~run.dash.empty
ReportsShown == run.page = "main" /\ ~run.reports.empty

-----------------------------------------------------------------------------
(* C1 *)

\* C1: for every non-empty ledger the Dashboard's per-category totals have one
\* row per distinct category present, and their sum is the grand total of the
\* ledger's amounts.
C1_CategoryTotalsSumToTotal ==
    DashShown =>
        LET df == run.df_dash
            cd == run.dash.cat_data
        IN /\ SumSeq([k \in 1..Len(cd) |-> cd[k].amount]) = GrandTotal(df)
           /\ {cd[k].category : k \in 1..Len(cd)} = {df[i].category : i \in Rows(df)}
           /\ \A k, l \in 1..Len(cd) : cd[k].category = cd[l].category => k = l
           /\ \A k \in 1..Len(cd) :
                cd[k].amount = SumAmountsAt(df, {i \in Rows(df) : df[i].category = cd[k].category})

\* a ledger with two categories, one of them holding two records
C1_Witness ==
    /\ DashShown
    /\ Len(run.dash.cat_data) = 2
    /\ Len(run.df_dash) = 3
    /\ GrandTotal(run.df_dash) = 350

-----------------------------------------------------------------------------
(* C2 *)

\* C2: for every non-empty ledger, necessary_total (the amounts of the records
\* with is_necessary = 1) plus non_necessary_total (the amounts of all other
\* records, whatever their flag) is the grand total; the donut's rows, one for
\* each flag value present, add up to it as well.
C2_NecessityPartition ==
    DashShown =>
        LET df == run.df_dash
            split == run.dash.split
            nd == run.dash.necessity_data
        IN /\ split.necessary = NecessaryTotal(df)
           /\ split.non_need = NonNecessaryTotal(df)
           /\ split.necessary + split.non_need = GrandTotal(df)
           /\ split.total = GrandTotal(df)
           /\ SumSeq([k \in 1..Len(nd) |-> nd[k].amount]) = GrandTotal(df)
           /\ \A i \in Rows(df) : \E k \in 1..Len(nd) : nd[k].is_necessary = df[i].is_necessary
           /\ \A k \in 1..Len(nd) :
                 nd[k].amount = SumAmountsAt(df, {i \in Rows(df) :
                                                    df[i].is_necessary = nd[k].is_necessary})

\* a ledger with the flags 0, 1 and 2: 100 necessary and 100 other of 200,
\* the donut with a row for each of the three flags, the third without label
C2_Witness ==
    /\ DashShown
    /\ run.dash.split.necessary = 100
    /\ run.dash.split.non_need = 100
    /\ Len(run.dash.necessity_data) = 3
    /\ run.dash.necessity_data[3].is_necessary = 2
    /\ run.dash.necessity_data[3].label = <<>>

-----------------------------------------------------------------------------
(* C3 *)

\* C3: with ratio the non-necessary fraction of the total and avg_monthly the
\* mean of the per-month sums, the tip is emitted iff avg_monthly > 0 and
\* ratio > 0.30, its value is ratio * avg_monthly * 0.25 (125 for ratio 0.5
\* and avg_monthly 1000), and the warning is emitted iff ratio > 0.40; with
\* ratio <= 0.30 neither is emitted.
C3_SavingsSuggestion ==
    DashShown =>
        LET df == run.df_dash
            sg == run.dash.suggestions
            total == GrandTotal(df)
            nn == NonNecessaryTotal(df)
            m == Cardinality(MonthsOf(df))
            \* ratio > p / 100, ratio being nn / total, or 0 when total is 0
            RatioAbove(p) == total > 0 /\ nn * 100 > p * total
            \* avg_monthly = total / m
            AvgPositive == total > 0
        IN /\ FracEq(sg.avg_monthly, Frac(total, m))
           /\ sg.tip <=> (AvgPositive /\ RatioAbove(30))
           /\ sg.tip => FracEq(sg.est_saves, Frac(nn * 25, m * 100))
           /\ sg.warning <=> RatioAbove(40)
           /\ ~RatioAbove(30) => (~sg.tip /\ ~sg.warning)
           /\ (2 * nn = total /\ total = 1000 * m) =>
                (sg.tip /\ sg.warning /\ FracEq(sg.est_saves, Frac(125, 1)))
           /\ (5 * nn = total /\ total = 1000 * m) => (~sg.tip /\ ~sg.warning)

\* ratio 0.5 and avg_monthly 1000: the tip of 125 and the warning
C3_Witness ==
    /\ DashShown
    /\ 2 * NonNecessaryTotal(run.df_dash) = GrandTotal(run.df_dash)
    /\ GrandTotal(run.df_dash) = 1000 * Cardinality(MonthsOf(run.df_dash))
    /\ run.dash.suggestions.tip
    /\ run.dash.suggestions.warning
    /\ FracEq(run.dash.suggestions.est_saves, Frac(125, 1))

-----------------------------------------------------------------------------
(* C4 *)

\* C4 as stated: the split never fails and its ratio is a number for every
\* ledger a run fetches: non_necessary_total / total when total > 0 and 0
\* otherwise, and {0, 0, 0.0} for the empty ledger.
C4_RatioAlways ==
    Rendered =>
        LET df == run.df_dash
            split == run.dash.split
        IN /\ ~IsNaN(split.ratio)
           /\ GrandTotal(df) > 0 =>
                FracEq(split.ratio, Frac(NonNecessaryTotal(df), GrandTotal(df)))
           /\ GrandTotal(df) = 0 => split.ratio = Frac(0, 1)
           /\ df = <<>> => /\ split.necessary = 0 /\ split.non_need = 0

\* C4 as amended: for every non-empty ledger the ratio is a number,
\* non_necessary_total / total when total > 0 and 0 when the amounts are all
\* zero; for the empty ledger the Dashboard computes no split and shows its
\* no-data message, with no warning and no tip.
C4_RatioWhenData ==
    /\ DashShown =>
          LET df == run.df_dash
              split == run.dash.split
          IN /\ ~IsNaN(split.ratio)
             /\ GrandTotal(df) > 0 =>
                  FracEq(split.ratio, Frac(NonNecessaryTotal(df), GrandTotal(df)))
             /\ GrandTotal(df) = 0 => split.ratio = Frac(0, 1)
    /\ (Rendered /\ run.df_dash = <<>>) =>
          /\ run.dash.empty
          /\ IsNaN(run.dash.split.ratio)
          /\ ~run.dash.suggestions.warning /\ ~run.dash.suggestions.tip

\* a non-empty ledger whose amounts are all zero: ratio 0, nothing emitted
C4_Witness ==
    /\ DashShown
    /\ Len(run.df_dash) = 2
    /\ run.dash.split.total = 0
    /\ run.dash.split.ratio = Frac(0, 1)
    /\ ~run.dash.suggestions.tip

-----------------------------------------------------------------------------
(* C5, C6 *)

\* whether row r of the sorted result is one of the rows of df
RowOf(df, r) == \E i \in Rows(df) : df[i] = r

\* C5: the top 5 are exactly min(5, number of records) records of the ledger,
\* in non-increasing amount order, each with an amount greater than or equal
\* to that of every record not returned.
C5_TopFive ==
    Rendered =>
        LET df == WithDatetime(run.df_dash)
            t == run.dash.top5
        IN /\ Len(t) = Min2(5, Len(df))
           /\ \A k \in 1..Len(t) : RowOf(df, t[k])
           /\ \A k, l \in 1..Len(t) : t[k].id = t[l].id => k = l
           /\ \A k \in 1..(Len(t) - 1) : t[k].amount >= t[k + 1].amount
           /\ \A i \in Rows(df) :
                (\A k \in 1..Len(t) : t[k] # df[i]) =>
                    \A k \in 1..Len(t) : t[k].amount >= df[i].amount

\* six records of two amounts: five are returned, a smaller one is left out
C5_Witness ==
    /\ Rendered
    /\ Len(run.df_dash) = 6
    /\ Len(run.dash.top5) = 5
    /\ run.dash.top5[1].amount = 200
    /\ run.dash.top5[5].amount = 100
    /\ \E i \in Rows(run.df_dash) :
         /\ run.df_dash[i].amount = 100
         /\ \A k \in 1..5 : run.dash.top5[k].id # run.df_dash[i].id

RECURSIVE StableTop(_, _, _)
\* the first n rows of df[S] by descending amount, rows of equal amount in
\* ledger order: what a stable sort returns
StableTop(df, S, n) ==
    IF n = 0 \/ S = {} THEN <<>>
    ELSE LET i == CHOOSE x \in S :
                    /\ \A j \in S : df[j].amount <= df[x].amount
                    /\ \A j \in S : df[j].amount = df[x].amount => x <= j
         IN <<df[i]>> \o StableTop(df, S \ {i}, n - 1)

\* C6 as stated: records of equal amount keep their ledger order in the top 5,
\* and the earlier one is the one kept at the cut (a stable sort).
C6_StableTies ==
    Rendered =>
        run.dash.top5 = StableTop(WithDatetime(run.df_dash), Rows(run.df_dash), 5)

\* C6 as amended: the top 5 carry, position by position, the amounts a stable
\* descending sort gives; which records of equal amount fill those positions,
\* and in what order, is not fixed; without equal amounts the result is the
\* stable one.
C6_AmountsOfStableSort ==
    Rendered =>
        LET df == WithDatetime(run.df_dash)
            t == run.dash.top5
            st == StableTop(df, Rows(df), 5)
        IN /\ [k \in 1..Len(t) |-> t[k].amount] = [k \in 1..Len(st) |-> st[k].amount]
           /\ (\A i, j \in Rows(df) : df[i].amount = df[j].amount => i = j) => t = st

\* of two records of equal amount the later one is kept and the earlier left out
C6_Witness ==
    /\ Rendered
    /\ Len(run.df_dash) > 5
    /\ \E i, j \in Rows(run.df_dash) :
         /\ i < j
         /\ run.df_dash[i].amount = run.df_dash[j].amount
         /\ \E k \in 1..Len(run.dash.top5) : run.dash.top5[k].id = run.df_dash[j].id
         /\ \A k \in 1..Len(run.dash.top5) : run.dash.top5[k].id # run.df_dash[i].id

-----------------------------------------------------------------------------
(* C7 *)

\* the rows of weekday wd among the fetched rows df
OnWeekday(df, wd) == {i \in Rows(df) : day_name(to_datetime(df[i].date)) = wd}

\* seven rows, Monday to Sunday; no-data values for a weekday without records;
\* necessity_ratio = necessary records / records * 100 for one with records
WeekdayRows(df, rows) ==
    /\ Len(rows) = 7
    /\ \A k \in 1..Len(rows) :
         LET I == OnWeekday(df, WeekdayOrder[k])
             nec == {i \in I : df[i].is_necessary = 1}
         IN /\ rows[k].Weekday = WeekdayOrder[k]
            /\ I = {} => (IsNaN(rows[k].avg_amount) /\ IsNaN(rows[k].necessity_ratio))
            /\ I # {} =>
                 /\ FracEq(rows[k].necessity_ratio, Frac(Cardinality(nec) * 100, Cardinality(I)))
                 /\ FracEq(rows[k].avg_amount, Frac(SumAmountsAt(df, I), Cardinality(I)))
                 /\ FracEq(rows[k].total_amount, Frac(SumAmountsAt(df, I), 1))

\* C7 as stated: the weekday statistics are those seven rows for every ledger,
\* the empty ledger included.
C7_SevenRowsAlways ==
    Rendered => WeekdayRows(run.df_rep, run.reports.weekday_data)

\* C7 as amended: the weekday statistics are those seven rows for every
\* non-empty ledger; for the empty ledger the Reports tab computes no weekday
\* rows and shows its no-data message, without an error.
C7_SevenRowsWhenData ==
    /\ ReportsShown => /\ WeekdayRows(run.df_rep, run.reports.weekday_data)
                       /\ run.reports.monthly_avg # <<>>
    /\ (Rendered /\ run.df_rep = <<>>) =>
            /\ run.reports.empty
            /\ run.reports.weekday_data = <<>>
            /\ run.reports.error = ""

\* two records on Thursday 2024-02-01, one of them necessary, none on a Monday
C7_Witness ==
    /\ ReportsShown
    /\ Len(run.df_rep) = 2
    /\ \A i \in Rows(run.df_rep) : run.df_rep[i].date = <<2024, 2, 1>>
    /\ run.reports.weekday_data[4].Weekday = "Thursday"
    /\ run.reports.weekday_data[4].count = Frac(2, 1)
    /\ run.reports.weekday_data[4].necessity_ratio = Frac(50, 1)
    /\ IsNaN(run.reports.weekday_data[1].avg_amount)
    /\ IsNaN(run.reports.weekday_data[1].necessity_ratio)

-----------------------------------------------------------------------------
(* C8 *)

\* C8: the monthly summary has one row for each (year, month) holding a record
\* and no other row, in ascending chronological order, each row with the count
\* and the sum of the records of that month; one month number in two years
\* gives two rows.
C8_MonthlySummary ==
    ReportsShown =>
        LET df == run.df_rep
            ms == run.reports.monthly_summary
        IN /\ {ms[k].MonthPeriod : k \in 1..Len(ms)} = MonthsOf(df)
           /\ Len(ms) = Cardinality(MonthsOf(df))
           /\ \A k \in 1..(Len(ms) - 1) :
                ms[k].MonthPeriod[1] * 12 + ms[k].MonthPeriod[2]
                    < ms[k + 1].MonthPeriod[1] * 12 + ms[k + 1].MonthPeriod[2]
           /\ \A k \in 1..Len(ms) :
                LET I == {i \in Rows(df) : MonthOf(df[i]) = ms[k].MonthPeriod}
                IN /\ ms[k].TotalEntries = Cardinality(I)
                   /\ ms[k].TotalSpent.value = Frac(SumAmountsAt(df, I), 1)
           /\ (Len(df) = 3 /\ MonthsOf(df) = {<<2024, 1>>, <<2024, 2>>}
                  /\ SumAmountsAt(df, {i \in Rows(df) : MonthOf(df[i]) = <<2024, 1>>}) = 150
                  /\ SumAmountsAt(df, {i \in Rows(df) : MonthOf(df[i]) = <<2024, 2>>}) = 200) =>
                (/\ Len(ms) = 2
                 /\ ms[1].TotalSpent.value = Frac(150, 1)
                 /\ ms[2].TotalSpent.value = Frac(200, 1))

\* records in January 2024 and in January 2025: two rows, 2024 first
C8_Witness ==
    /\ ReportsShown
    /\ Len(run.df_rep) = 3
    /\ Len(run.reports.monthly_summary) = 2
    /\ run.reports.monthly_summary[1].MonthPeriod = <<2024, 1>>
    /\ run.reports.monthly_summary[1].TotalEntries = 2
    /\ run.reports.monthly_summary[2].MonthPeriod = <<2025, 1>>

-----------------------------------------------------------------------------
(* C9 *)

\* C9: for every non-empty ledger, whatever the number m >= 1 of months it
\* covers, the Reports tab computes the monthly-average trend and its "last 12
\* entries" window without an error, the window spanning the last min(12, m)
\* entries of the trend.
C9_TrendWindowNeverFails ==
    ReportsShown =>
        LET trend == run.reports.monthly_avg
            m == Len(trend)
        IN /\ m = Cardinality(MonthsOf(run.df_rep))
           /\ run.reports.error = ""
           /\ run.reports.range = <<trend[m + 1 - Min2(12, m)].month_str, trend[m].month_str>>

-----------------------------------------------------------------------------
(* C10 *)

\* C10: the ledger fetched for an identity holds exactly the records added
\* under that identity, and none added under another.
C10_LedgersDisjoint ==
    \A e \in Emails :
        get_expenses_df(fs, e) = get_expenses_df(AddAll(NoFiles, e, added[e]), e)

-----------------------------------------------------------------------------
(* C11 *)

\* the main page of app.py was rendered in the last run
AppRendered == run.page = "main"

\* C11: every view of a run is computed from the ledger as it is stored when
\* the view is rendered; Reports and All Entries render after the form's
\* insert, so in a run that adds a record they are computed from the ledger
\* that holds it (the sidebar and the Dashboard from the ledger before it).
C11_ViewsFresh ==
    AppRendered =>
        LET stored == get_expenses(fs, session_state.user_id)
        IN /\ run.reports = app_Reports(stored)
           /\ run.all_rendered => Len(run.all_entries) = Len(stored)
           /\ ~run.submitted => run.df_sidebar = stored /\ run.df = stored

-----------------------------------------------------------------------------
(* C12 *)

\* C12: add-expense only appends.  In every step each user's fetched ledger
\* keeps every record it had, unchanged; a submitted Add Expense form gives
\* the signed-in user exactly one more record, and every other user's ledger,
\* like every ledger in a step that adds nothing, stays as it was.
C12_AppendOnly ==
    [][\A e \in Emails :
          LET before == get_expenses_df(fs, e)
              after == get_expenses_df(fs', e)
          IN /\ \A i \in 1..Len(before) : \E j \in 1..Len(after) : after[j] = before[i]
             /\ IF run'.page = "main" /\ run'.submitted /\ e = user_email
                THEN Len(after) = Len(before) + 1
                ELSE after = before]_vars

-----------------------------------------------------------------------------
(* C13 *)

\* the amounts stored in the file at path: the expenses table of the shared
\* database (REAL values, as fractions), or the rows of a user's file
StoredAmounts(path) ==
    LET rows == IF path = DB THEN fs[path].expenses ELSE fs[path]
    IN {rows[i].amount : i \in 1..Len(rows)}
\* whether an amount stored in the file at path is >= 0
NonNegative(path, amount) == IF path = DB THEN amount.num >= 0 ELSE amount >= 0

\* C13: every stored record has amount >= 0, because add_expense rejects a
\* negative amount and stores nothing, in the shared database and in the
\* per-user files alike.
C13_AmountsNonNegative ==
    \A path \in DOMAIN fs : \A amount \in StoredAmounts(path) : NonNegative(path, amount)

-----------------------------------------------------------------------------
(* C14 *)

\* two dataframes with the same columns holding the same values, row by row
SameFrame(a, b) ==
    /\ Len(a) = Len(b)
    /\ \A i \in 1..Len(a) :
          /\ DOMAIN a[i] = DOMAIN b[i]
          /\ \A c \in DOMAIN a[i] : a[i][c] = b[i][c]

\* C14: computing a view leaves the snapshot it was given as it was fetched
\* (no column added, no value rewritten), and All Entries, rendered later in
\* the run from that snapshot, shows the records exactly as fetched.
C14_SnapshotUnchanged ==
    AppRendered /\ ~run.reports.empty =>
        /\ SameFrame(run.reports.after, run.df)
        /\ run.all_rendered => SameFrame(run.all_entries, drop_user_id(run.df))

-----------------------------------------------------------------------------
(* C15, C16 *)

\* the users table, and whether one of users holds username
Users == get_connection(fs).users
Holds(users, username) == \E i \in 1..Len(users) : users[i].username = username

\* C15: the register form submitted with a non-empty username that no user
\* holds, a password of at least 6 characters and an empty email creates the
\* user and reports success, whatever users exist already.
C15_EmailOptional ==
    \A k \in 1..Len(run.register) :
        LET form == run.register[k]
        IN (/\ form.username # <<>>
            /\ ~Holds(form.users_before, form.username)
            /\ Len(form.password) >= 6
            /\ form.email = <<>>)
           => /\ run.message = "Registered successfully"
              /\ Len(Users) = Len(form.users_before) + 1
              /\ Users[Len(Users)].username = form.username

\* C16: usernames stay unique.  create_user with a username some user holds
\* returns False and leaves the users table as it was; a form with an empty
\* username, a password under 6 characters or a malformed non-empty email
\* never reaches create_user and creates no user.
C16_UniqueUsernames ==
    /\ \A i \in 1..Len(Users) : \A j \in 1..Len(Users) :
          Users[i].username = Users[j].username => i = j
    /\ \A k \in 1..Len(run.register) :
          LET form == run.register[k]
          IN /\ (run.create_user_called /\ Holds(form.users_before, form.username))
                => /\ run.message = "Username or Email already exists"
                   /\ Users = form.users_before
             /\ (\/ form.username = <<>>
                 \/ Len(form.password) < 6
                 \/ (form.email # <<>> /\ ~email_regex(form.email)))
                => /\ ~run.create_user_called
                   /\ Users = form.users_before

\* a second registration under a held username was refused
C16_Witness ==
    /\ Len(run.register) = 1
    /\ run.create_user_called
    /\ Holds(run.register[1].users_before, run.register[1].username)
    /\ run.register[1].email = EmailUpper
    /\ Len(Users) = 1

-----------------------------------------------------------------------------
(* C17 *)

\* whether identifier and password are the credentials of user
Matches(user, identifier, password) ==
    /\ user.username = identifier \/ user.email = identifier
    /\ user.password_hash = sha256(password)

\* C17: on the main page user_id is the id of an existing user whose
\* credentials the last login matched; on the auth page (at the start, after
\* a failed login, after logout) user_id is None; every query of a run is made
\* for an existing user, never for None.
C17_SessionGuard ==
    /\ session_state.page = "main" =>
          /\ Len(added.matched) = 1
          /\ \E i \in 1..Len(Users) :
                /\ Users[i].id = session_state.user_id
                /\ Matches(Users[i], added.matched[1].identifier, added.matched[1].password)
    /\ session_state.page = "auth" => session_state.user_id = None
    /\ run.message = "Invalid credentials" =>
          session_state.user_id = None /\ session_state.page = "auth"
    /\ \A k \in 1..Len(run.fetched_for) :
          /\ run.fetched_for[k] # None
          /\ \E i \in 1..Len(Users) : Users[i].id = run.fetched_for[k]
    /\ run.submitted => Len(run.fetched_for) = 1

\* the second user, logged in by email, has added a record
C17_Witness ==
    /\ session_state.page = "main" /\ session_state.user_id = 2
    /\ Len(added.matched) = 1 /\ added.matched[1].identifier = EmailUpper
    /\ run.page = "main" /\ run.submitted
    /\ Len(get_expenses(fs, 2)) = 1

-----------------------------------------------------------------------------
(* C18 *)

\* the two session keys of the Google sign-in
GoogleKeys == {"google_email", "google_user_info"}

\* C18: in every step the two session keys are present together or absent
\* together, the stored email being the one of the stored identity; they are
\* set only by a run whose callback verified an identity and removed only by
\* Logout; a run that fails, or finds no session, touches neither the session
\* nor any ledger; and whatever a run fetches or inserts is in the file of
\* the session's email.
C18_SessionKeys ==
    [][/\ GoogleKeys \subseteq DOMAIN session_state' \/ GoogleKeys \cap DOMAIN session_state' = {}
       /\ "google_email" \in DOMAIN session_state' =>
             session_state'["google_email"] = session_state'["google_user_info"].email
       /\ session_state' # session_state =>
             \/ /\ run'.page = "rerun" /\ fs' = fs
                /\ GoogleKeys \subseteq DOMAIN session_state'
                /\ \E e \in Emails : session_state'["google_user_info"] = UserInfo(e)
             \/ /\ LoggedIn
                /\ GoogleKeys \cap DOMAIN session_state' = {}
       /\ run'.page \in {"error", "login"} => fs' = fs /\ session_state' = session_state
       /\ ~LoggedIn => fs' = fs
       /\ fs' # fs =>
             /\ LoggedIn
             /\ \A p \in DOMAIN fs' \ {db_path(user_email)} : p \in DOMAIN fs /\ fs'[p] = fs[p]
       /\ run'.page = "main" =>
             /\ LoggedIn
             /\ run'.df_sidebar = get_expenses_df(fs, user_email)
             /\ run'.df_dash = get_expenses_df(fs, user_email)
             /\ run'.df_rep = get_expenses_df(fs', user_email)]_vars

\* a.b@x.y, signed in by a verified callback, has added a record
C18_Witness ==
    /\ LoggedIn /\ user_email = EmailDot
    /\ session_state["google_user_info"] = UserInfo(EmailDot)
    /\ run.page = "main" /\ run.submitted
    /\ Len(run.df_rep) = 1

-----------------------------------------------------------------------------
(* C19 *)

\* C19: on a non-empty ledger (amounts >= 0) the Dashboard that shows the
\* over-40% warning shows the savings tip too.
C19_WarningImpliesTip ==
    DashShown => (run.dash.suggestions.warning => run.dash.suggestions.tip)

\* a Dashboard showing both, on a ledger that also holds a zero amount
C19_Witness ==
    /\ DashShown
    /\ run.dash.suggestions.warning /\ run.dash.suggestions.tip
    /\ \E i \in Rows(run.df_dash) : run.df_dash[i].amount = 0

====
